---- MODULE Spec2Model ----
(***************************************************************************)
(* A model of the document ingestion and pagination core of the reader:    *)
(*   - Reader.processContent (src/views/Reader.tsx): pagination and the    *)
(*     heading index;                                                      *)
(*   - Library.processFile (src/unnamed/part_000): size check, format      *)
(*     dispatch, extraction, the blank-text check and onAddBook;           *)
(*   - extractTextFromPdf (src/services/pdf.ts);                           *)
(*   - extractTextFromEpub / extractTextFromMobi (src/services/gemini.ts). *)
(*                                                                         *)
(* Strings are sequences of characters.  A character is a one-character    *)
(* TLA+ string, except for the block characters ("X240" is 240 consecutive *)
(* copies of the letter x, see Blocks), a run-length encoding that keeps   *)
(* lines of the lengths the character budget of 1200 speaks about small.   *)
(* A character outside ASCII is written by its code point ("u4E2D" is      *)
(* U+4E2D), a byte outside ASCII by its value ("xD6" is 0xD6); a byte of   *)
(* ASCII is written as its character.                                      *)
(***************************************************************************)
EXTENDS Integers, Sequences, FiniteSets, TLC

VARIABLES
    \* ---- Reader (src/views/Reader.tsx) ----
    content,        \* book.content
    rpc,            \* position of processContent: "idle", "loop", "done"
    lines,          \* const lines = content.split('\n')
    i,              \* loop index into lines (1-based here)
    currentChunk,   \* let currentChunk
    currentLength,  \* let currentLength
    pageIndex,      \* let pageIndex
    newPages,       \* const newPages
    tempToc,        \* const tempToc
    tocSrc,         \* ghost, parallel to tempToc: the line each entry came from
    pages,          \* state pages (setPages)
    toc,            \* state toc (setToc)
    hist,           \* ghost: the texts of the processContent runs started
    memo,           \* ghost: text, pages and toc of the first completed run
    currentPage,    \* state currentPage (setCurrentPage)
    bookProgress,   \* book.progress, as the Reader was given it
    asked,          \* ghost: the last page change asked for, and the page it was asked on
    \* ---- App (src/unnamed/part_001) ----
    view,           \* state view: "library", "reader", "converter"
    activeBook,     \* state activeBook, NoBook for null
    closedOn,       \* ghost: the page and page count handleBack last closed on
    uploads,        \* the calls of processFile made so far, each with its position
    op,             \* ghost: the handler of App called last, and the state before it
    \* ---- extractTextFromPdf (src/services/pdf.ts) ----
    pdfPc,          \* position: "idle", "load", "page", "done", "failed"
    totalPages,     \* const totalPages = pdf.numPages
    pdfI,           \* page loop index i
    fullText,       \* let fullText
    items,          \* textContent.items of the page read last
    pageText,       \* pageText of the page read last
    pdfResult,      \* what the call returned or threw
    pdfBody,        \* ghost: the page texts so far, without the page markers
    caught,         \* ghost: the error the catch block of extractTextFromPdf received
    \* ---- extractTextFromEpub (src/services/gemini.ts) ----
    epubPc,         \* position: "idle", "open", "spine", "done", "failed"
    zip,            \* the archive: zip.files, the OPF manifest and spine
    opfDir,         \* const opfDir
    epubK,          \* position of the for-of loop in itemrefs (1-based)
    epubText,       \* let fullText
    emitted,        \* ghost: idref of every spine item whose text was appended
    epubResult,     \* what the call returned or threw
    \* ---- Library.processFile (src/unnamed/part_000) ----
    file,           \* the File handed to processFile: name, type, size
    lpc,            \* position: "idle", "extract", "metadata", "cover", "done"
    isUploading,    \* state isUploading
    text,           \* let text
    format,         \* let format
    books,          \* the books added through onAddBook
    alert,          \* the alert raised, if any
    calls,          \* ghost: the extractors processFile has called
    docText,        \* ghost: the text of the document, before notes are added
    buffer,         \* ghost: the bytes file.arrayBuffer() gave the extractor
    gbSupported     \* ghost: new TextDecoder('gb18030') did not throw

readerVars == <<content, rpc, lines, i, currentChunk, currentLength, pageIndex,
                newPages, tempToc, tocSrc, pages, toc, hist, memo, currentPage,
                bookProgress, asked>>

appVars == <<view, activeBook, closedOn, uploads, op>>

pdfVars == <<pdfPc, totalPages, pdfI, fullText, items, pageText, pdfResult,
            pdfBody, caught>>

epubVars == <<epubPc, zip, opfDir, epubK, epubText, emitted, epubResult>>

libVars == <<file, lpc, isUploading, text, format, books, alert, calls, docText,
            buffer, gbSupported>>

vars == <<readerVars, appVars, pdfVars, epubVars, libVars>>

-----------------------------------------------------------------------------
(* Bounds of the model *)

\* longest book text, in characters of the alphabet
MaxTextLen == 5
\* longest book text of the specification that paginates a text repeatedly
MaxReTextLen == 3
\* number of processContent runs the repagination specification follows
MaxRuns == 3
\* most pages of a PDF document whose layout is studied
MaxPdfPages == 2
\* most text items on a PDF page
MaxItems == 2
\* most itemrefs of an EPUB spine
MaxSpine == 2
\* most items of an EPUB manifest
MaxManifest == 2
\* most pages of a PDF document handed to processFile
MaxFilePages == 2
\* longest text before a heading, in characters of the alphabet
MaxPrefixLen == 3

-----------------------------------------------------------------------------
(* Strings *)

NL == "\n"

Blocks == {"X8", "X240", "X480", "X961", "S10", "H100", "A99"}

\* number of UTF-16 code units a character of the model stands for
CharLen(c) ==
    CASE c = "X8" -> 8
      [] c = "X240" -> 240
      [] c = "X480" -> 480
      [] c = "X961" -> 961
      [] c = "S10" -> 10
      [] c = "H100" -> 100
      [] c = "A99" -> 99
      [] OTHER -> 1

\* the character a block repeats; any other character is itself
BaseChar(c) ==
    CASE c \in {"X8", "X240", "X480", "X961"} -> "x"
      [] c = "S10" -> " "
      [] c = "H100" -> "#"
      [] c = "A99" -> "a"
      [] OTHER -> c

\* String.prototype.length
RECURSIVE StrLen(_)
StrLen(s) == IF s = <<>> THEN 0 ELSE CharLen(Head(s)) + StrLen(Tail(s))

\* white space as String.prototype.trim and the regex class \s see it
IsSpace(c) == BaseChar(c) \in {" ", "\t", "\r", "\n", "u3000"}

\* String.prototype.trim
RECURSIVE TrimStart(_)
TrimStart(s) == IF s # <<>> /\ IsSpace(Head(s)) THEN TrimStart(Tail(s)) ELSE s

RECURSIVE TrimEnd(_)
TrimEnd(s) ==
    IF s # <<>> /\ IsSpace(s[Len(s)]) THEN TrimEnd(SubSeq(s, 1, Len(s) - 1)) ELSE s

Trim(s) == TrimEnd(TrimStart(s))

\* !s.trim()
IsBlank(s) == Trim(s) = <<>>

\* String.prototype.split('\n')
RECURSIVE Split(_)
Split(s) ==
    IF \A k \in 1..Len(s) : s[k] # NL
    THEN <<s>>
    ELSE LET k == CHOOSE k \in 1..Len(s) :
                      s[k] = NL /\ \A j \in 1..(k - 1) : s[j] # NL
         IN <<SubSeq(s, 1, k - 1)>> \o Split(SubSeq(s, k + 1, Len(s)))

\* s.substring(0, n); a block cut in the middle leaves n of its characters
RECURSIVE Substring0(_, _)
Substring0(s, n) ==
    IF n <= 0 \/ s = <<>> THEN <<>>
    ELSE IF CharLen(Head(s)) <= n
         THEN <<Head(s)>> \o Substring0(Tail(s), n - CharLen(Head(s)))
         ELSE [k \in 1..n |-> BaseChar(Head(s))]

\* concatenation of a sequence of strings
RECURSIVE Concat(_)
Concat(ss) == IF ss = <<>> THEN <<>> ELSE Head(ss) \o Concat(Tail(ss))

IsPrefix(p, s) == Len(p) <= Len(s) /\ SubSeq(s, 1, Len(p)) = p

\* all strings over alphabet A of length at most n
StringsUpTo(A, n) == UNION {[1..k -> A] : k \in 0..n}

-----------------------------------------------------------------------------
(* Reader.processContent *)

CHARS_PER_PAGE == 1200

\* the page pushed when pagination produced none
Placeholder == <<"u6682", "u65E0", "u5185", "u5BB9">>

\* number of leading '#' of s: s.match(/^#+/)[0].length, 0 when there is none
RECURSIVE LeadingHashes(_)
LeadingHashes(s) ==
    IF s # <<>> /\ Head(s) = "#" THEN 1 + LeadingHashes(Tail(s)) ELSE 0

Numerals == {"0", "1", "2", "3", "4", "5", "6", "7", "8", "9", "u96F6", "u4E00",
             "u4E8C", "u4E09", "u56DB", "u4E94", "u516D", "u4E03", "u516B",
             "u4E5D", "u5341", "u767E", "u5343"}

Digits == {"0", "1", "2", "3", "4", "5", "6", "7", "8", "9"}

RECURSIVE LeadingIn(_, _)
LeadingIn(s, S) ==
    IF s # <<>> /\ Head(s) \in S THEN 1 + LeadingIn(Tail(s), S) ELSE 0

\* case-insensitive match of the word Chapter at the start of s
ChapterWord == <<{"c", "C"}, {"h", "H"}, {"a", "A"}, {"p", "P"}, {"t", "T"},
                 {"e", "E"}, {"r", "R"}>>

StartsWithChapter(s) ==
    Len(s) >= 7 /\ \A k \in 1..7 : s[k] \in ChapterWord[k]

\* headerRegex.test(t):
\*   /^(#{1,6}\s+|\u7B2C[0-9 and the thirteen numerals above]+[\u7AE0\u56DE\u8282\u5377]
\*     |Chapter\s+\d+)/i
HeaderTest(t) ==
    \/ LET n == LeadingHashes(t)
       IN n >= 1 /\ n <= 6 /\ Len(t) > n /\ IsSpace(t[n + 1])
    \/ /\ t # <<>> /\ Head(t) = "u7B2C"
       /\ LET m == LeadingIn(Tail(t), Numerals)
          IN m >= 1 /\ Len(t) >= m + 2 /\ t[m + 2] \in {"u7AE0", "u56DE", "u8282", "u5377"}
    \/ /\ StartsWithChapter(t)
       /\ LET r == SubSeq(t, 8, Len(t))
              w == LeadingIn(r, {" ", "\t", "\r", "\n", "u3000"})
          IN w >= 1 /\ Len(r) > w /\ r[w + 1] \in Digits

\* const level = line.startsWith('#') ? line.match(/^#+/)?.[0].length || 1 : 1
HeadingLevel(line) ==
    IF line # <<>> /\ Head(line) = "#" THEN LeadingHashes(line) ELSE 1

\* line.replace(/^[#\s]+/, '').trim()
RECURSIVE StripHashSpace(_)
StripHashSpace(s) ==
    IF s # <<>> /\ (Head(s) = "#" \/ IsSpace(Head(s)))
    THEN StripHashSpace(Tail(s)) ELSE s

HeadingTitle(line) == Trim(StripHashSpace(line))

\* title.length > 20 ? title.substring(0, 20) + '...' : title
TocTitle(line) ==
    LET title == HeadingTitle(line)
    IN IF StrLen(title) > 20
       THEN Substring0(title, 20) \o <<".", ".", ".">>
       ELSE title

\* currentLength > CHARS_PER_PAGE * 0.8  (1200 * 0.8 is exactly 960)
NearPageEnd(len) == len * 10 > CHARS_PER_PAGE * 8

\* a target page that would move on at exactly 80% of the budget
TargetPageInclusive(pi, len) ==
    IF len * 10 >= CHARS_PER_PAGE * 8 THEN pi + 1 ELSE pi

\* a target page that would skip a page when the heading is pulled forward
TargetPageSkipping(pi, len) == IF NearPageEnd(len) THEN pi + 2 ELSE pi

\* let targetPage = pageIndex; if (near the end) targetPage = pageIndex + 1
TargetPage(pi, len) == IF NearPageEnd(len) THEN pi + 1 ELSE pi

\* an append that forgets the line terminator
AppendLineBare(chunk, line) == chunk \o line

\* currentChunk += line + '\n'
AppendLine(chunk, line) == chunk \o line \o <<NL>>

\* a flush that would come as soon as the budget is reached
OverBudgetInclusive(len) == len >= CHARS_PER_PAGE

\* if (currentLength > CHARS_PER_PAGE)
OverBudget(len) == len > CHARS_PER_PAGE

-----------------------------------------------------------------------------
(* Numbers: the binary64 arithmetic of currentPage / pages.length * 100 and of
   progress / 100 * newPages.length.  A positive number is m * 2^e with m a
   sequence of Precision bits, the first of them 1; the operands besides it
   are small integers, which binary64 holds exactly. *)

Precision == 53

Zero == [m |-> <<>>, e |-> 0]

Zeros(n) == [j \in 1..n |-> 0]

\* the binary digits of a natural number, most significant first
RECURSIVE IntBits(_)
IntBits(k) == IF k = 0 THEN <<>> ELSE Append(IntBits(k \div 2), k % 2)

RECURSIVE BitsInt(_)
BitsInt(b) ==
    IF b = <<>> THEN 0
    ELSE 2 * BitsInt(SubSeq(b, 1, Len(b) - 1)) + b[Len(b)]

StripLeadingZeros(b) ==
    IF \A j \in 1..Len(b) : b[j] = 0 THEN <<>>
    ELSE LET first == CHOOSE j \in 1..Len(b) :
                          b[j] = 1 /\ \A k \in 1..(j - 1) : b[k] = 0
         IN SubSeq(b, first, Len(b))

\* b + 1
Increment(b) ==
    IF \A j \in 1..Len(b) : b[j] = 1 THEN <<1>> \o Zeros(Len(b))
    ELSE LET last == CHOOSE j \in 1..Len(b) :
                         b[j] = 0 /\ \A k \in (j + 1)..Len(b) : b[k] = 1
         IN SubSeq(b, 1, last - 1) \o <<1>> \o Zeros(Len(b) - last)

\* the arithmetic below works on digits of LimbBits bits each
LimbBits == 16

LimbBase == 2 ^ LimbBits

\* the digits of the bit sequence b, most significant first
Limbs(b) ==
    LET count == (Len(b) + LimbBits - 1) \div LimbBits
        padded == Zeros(count * LimbBits - Len(b)) \o b
    IN [k \in 1..count |->
           BitsInt(SubSeq(padded, (k - 1) * LimbBits + 1, k * LimbBits))]

\* the bit sequence of the digits ls
RECURSIVE BitsOfLimbs(_)
BitsOfLimbs(ls) ==
    IF ls = <<>> THEN <<>>
    ELSE LET d == IntBits(Head(ls))
         IN Zeros(LimbBits - Len(d)) \o d \o BitsOfLimbs(Tail(ls))

\* the exact product of the first j digits of ls and the small integer c,
\* plus the carry coming from the digits after them
RECURSIVE TimesFrom(_, _, _, _)
TimesFrom(ls, j, c, carry) ==
    IF j = 0 THEN <<carry>>
    ELSE LET t == ls[j] * c + carry
         IN Append(TimesFrom(ls, j - 1, c, t \div LimbBase), t % LimbBase)

\* long division of the first j digits of ls by the small integer d
RECURSIVE DividedUpTo(_, _, _)
DividedUpTo(ls, j, d) ==
    IF j = 0 THEN [q |-> <<>>, r |-> 0]
    ELSE LET p == DividedUpTo(ls, j - 1, d)
             t == LimbBase * p.r + ls[j]
         IN [q |-> Append(p.q, t \div d), r |-> t % d]

\* round to nearest, ties to even: the number bits * 2^e, plus something
\* below its last bit when sticky, as the nearest binary64 number
RoundToNearest(bits, e, sticky) ==
    LET s == StripLeadingZeros(bits)
        n == Len(s)
    IN IF s = <<>> THEN Zero
       ELSE IF n <= Precision
       THEN [m |-> s \o Zeros(Precision - n), e |-> e - (Precision - n)]
       ELSE LET keep == SubSeq(s, 1, Precision)
                guard == s[Precision + 1]
                below == sticky \/ \E j \in (Precision + 2)..n : s[j] = 1
                up == guard = 1 /\ (below \/ keep[Precision] = 1)
                r == IF up THEN Increment(keep) ELSE keep
            IN [m |-> SubSeq(r, 1, Precision),
                e |-> e + (n - Precision) + (Len(r) - Precision)]

\* a small integer as a number
NumberOf(k) == RoundToNearest(IntBits(k), 0, FALSE)

\* x * c
Times(x, c) ==
    IF x = Zero THEN Zero
    ELSE LET ls == Limbs(x.m)
         IN RoundToNearest(BitsOfLimbs(TimesFrom(ls, Len(ls), c, 0)), x.e,
                           FALSE)

\* x / d, the dividend extended by one digit so that the quotient keeps its
\* guard bit
DividedBy(x, d) ==
    IF x = Zero THEN Zero
    ELSE LET ls == Limbs(x.m \o Zeros(LimbBits))
             p == DividedUpTo(ls, Len(ls), d)
         IN RoundToNearest(BitsOfLimbs(p.q), x.e - LimbBits, p.r # 0)

\* Math.ceil, for numbers below 2^30
Ceil(x) ==
    IF x = Zero THEN 0
    ELSE LET w == Precision + x.e
         IN IF w <= 0 THEN 1
            ELSE IF w >= Precision THEN BitsInt(x.m) * 2 ^ x.e
            ELSE BitsInt(SubSeq(x.m, 1, w))
                 + (IF \E j \in (w + 1)..Precision : x.m[j] = 1 THEN 1 ELSE 0)

\* const finalProgress = (currentPage / pages.length) * 100
FinalProgress(page, count) == Times(DividedBy(NumberOf(page), count), 100)

\* Math.max(1, Math.ceil((book.progress / 100) * newPages.length))
InitialPageOf(prog, count) ==
    LET c == Ceil(Times(DividedBy(prog, 100), count))
    IN IF c > 1 THEN c ELSE 1

\* if (book.progress) ... else setCurrentPage(1)
InitialPage(prog, count) ==
    IF prog # Zero THEN InitialPageOf(prog, count) ELSE 1

-----------------------------------------------------------------------------
(* Reader: the run of processContent *)

\* a run that would start from what the previous run left in the page counter
StaleLocals ==
    [currentChunk |-> <<>>, currentLength |-> 0, pageIndex |-> pageIndex,
     newPages |-> <<>>, tempToc |-> <<>>]

\* the locals as processContent declares them on entry
StartLocals ==
    [currentChunk |-> <<>>, currentLength |-> 0, pageIndex |-> 0,
     newPages |-> <<>>, tempToc |-> <<>>]

\* processContent is entered: the content is split and the locals are declared
StartRun ==
    /\ rpc = "idle"
    /\ rpc' = "loop"
    /\ lines' = Split(content)
    /\ i' = 1
    /\ currentChunk' = StartLocals.currentChunk
    /\ currentLength' = StartLocals.currentLength
    /\ pageIndex' = StartLocals.pageIndex
    /\ newPages' = StartLocals.newPages
    /\ tempToc' = StartLocals.tempToc
    /\ tocSrc' = <<>>
    /\ hist' = Append(hist, content)
    /\ UNCHANGED <<content, pages, toc, memo, currentPage, bookProgress, asked>>
    /\ UNCHANGED <<appVars, pdfVars, epubVars, libVars>>

\* one iteration of the for loop over lines
LineStep ==
    /\ rpc = "loop"
    /\ i <= Len(lines)
    /\ LET line == lines[i]
           chunk == AppendLine(currentChunk, line)
           len == currentLength + StrLen(line)
       IN /\ IF HeaderTest(Trim(line))
             THEN /\ tempToc' = Append(tempToc,
                                       [title |-> TocTitle(line),
                                        pageIndex |-> TargetPage(pageIndex, currentLength),
                                        level |-> HeadingLevel(line)])
                  /\ tocSrc' = Append(tocSrc,
                                      [line |-> i,
                                       pulled |-> NearPageEnd(currentLength)])
             ELSE UNCHANGED <<tempToc, tocSrc>>
          /\ IF OverBudget(len)
             THEN /\ newPages' = Append(newPages, chunk)
                  /\ currentChunk' = <<>>
                  /\ currentLength' = 0
                  /\ pageIndex' = pageIndex + 1
             ELSE /\ currentChunk' = chunk
                  /\ currentLength' = len
                  /\ UNCHANGED <<newPages, pageIndex>>
    /\ i' = i + 1
    /\ UNCHANGED <<content, rpc, lines, pages, toc, hist, memo, currentPage,
                   bookProgress, asked>>
    /\ UNCHANGED <<appVars, pdfVars, epubVars, libVars>>

\* if (currentChunk.trim()) newPages.push(currentChunk)
FinalFlush(ps, chunk) == IF ~IsBlank(chunk) THEN Append(ps, chunk) ELSE ps

\* an ending that would leave an empty list of pages as it is
WithoutPlaceholder(ps) == ps

\* if (newPages.length === 0) newPages.push(the four-character placeholder)
WithPlaceholder(ps) == IF Len(ps) = 0 THEN <<Placeholder>> ELSE ps

\* after the loop: the last flush, the placeholder, setPages and setToc
FinishRun ==
    /\ rpc = "loop"
    /\ i > Len(lines)
    /\ LET ps == WithPlaceholder(FinalFlush(newPages, currentChunk))
       IN /\ newPages' = ps
          /\ pages' = ps
          /\ toc' = tempToc
          /\ currentPage' = InitialPage(bookProgress, Len(ps))
          /\ memo' = IF memo.set THEN memo
                     ELSE [set |-> TRUE, text |-> content, pages |-> ps,
                           toc |-> tempToc]
    /\ rpc' = "done"
    /\ UNCHANGED <<content, lines, i, currentChunk, currentLength, pageIndex,
                   tempToc, tocSrc, hist, bookProgress, asked>>
    /\ UNCHANGED <<appVars, pdfVars, epubVars, libVars>>

\* texts that are paginated between two paginations of the book under study
OtherTexts ==
    {<<"X961", NL, "#", " ", "x">>, <<"X961", "X240", NL, "x">>, <<>>}

\* the effect runs again: the Reader is given a book (the same text or another)
OpenBook ==
    /\ rpc = "done"
    /\ Len(hist) < MaxRuns
    /\ \E t \in OtherTexts \cup {memo.text} : content' = t
    /\ rpc' = "idle"
    /\ UNCHANGED <<lines, i, currentChunk, currentLength, pageIndex, newPages,
                   tempToc, tocSrc, pages, toc, hist, memo, currentPage,
                   bookProgress, asked>>
    /\ UNCHANGED <<appVars, pdfVars, epubVars, libVars>>

ReaderAlphabet == {NL, " ", "#", "x", "X240", "X480", "X961"}

\* no page change was asked for yet
NotAsked == [kind |-> "none", nan |-> FALSE, page |-> 0, from |-> 0]

\* the Reader before it is given a book (pc "off"), or as it is mounted on a
\* book of text t and progress p (pc "idle")
ReaderInitAt(t, p, pc) ==
    /\ content = t
    /\ rpc = pc
    /\ lines = <<>>
    /\ i = 0
    /\ currentChunk = <<>>
    /\ currentLength = 0
    /\ pageIndex = 0
    /\ newPages = <<>>
    /\ tempToc = <<>>
    /\ tocSrc = <<>>
    /\ pages = <<>>
    /\ toc = <<>>
    /\ hist = <<>>
    /\ memo = [set |-> FALSE, text |-> <<>>, pages |-> <<>>, toc |-> <<>>]
    /\ currentPage = 1
    /\ bookProgress = p
    /\ asked = NotAsked

ReaderInitWith(t) == ReaderInitAt(t, Zero, "idle")

\* activeBook is null
NoBook == [id |-> 0, content |-> <<>>, format |-> "", progress |-> Zero]

\* no book was closed yet
NeverClosed == [page |-> 0, count |-> 0]

\* no handler of App was called yet
NoCall ==
    [name |-> "none", id |-> 0, progress |-> Zero, before |-> <<>>,
     active |-> NoBook]

\* the App as it is constructed
AppInit ==
    /\ view = "library"
    /\ activeBook = NoBook
    /\ closedOn = NeverClosed
    /\ uploads = <<>>
    /\ op = NoCall

-----------------------------------------------------------------------------
(* extractTextFromPdf *)

\* the value lastY holds before the first item of a page
NO_LAST_Y == -9999

\* Math.min(totalPages, 50)
PAGE_CAP == 50

\* code points of the characters outside ASCII that text items carry
UCode ==
    [c \in {"u3000", "u4E2D", "uFF0C", "uFFFD"} |->
        CASE c = "u3000" -> 12288
          [] c = "u4E2D" -> 20013
          [] c = "uFF0C" -> 65292
          [] c = "uFFFD" -> 65533]

\* const isCJK = (c) => /[\u3000-\u303f\u4e00-\u9fa5\uff00-\uffef]/.test(c)
IsCJK(c) ==
    /\ c \in DOMAIN UCode
    /\ LET cp == UCode[c]
       IN \/ cp >= 12288 /\ cp <= 12351
          \/ cp >= 19968 /\ cp <= 40869
          \/ cp >= 65280 /\ cp <= 65519

\* !str || str.trim().length === 0
IsSkipped(item) == item.str = <<>> \/ StrLen(Trim(item.str)) = 0

\* const currentY = item.transform ? item.transform[5] : 0
CurrentY(item) == IF item.transform # <<>> THEN item.transform[6] ELSE 0

\* what is added to pageText before str: the body of if (lastY !== -9999)
Separator(lastY, currentY, soFar, str) ==
    IF lastY = NO_LAST_Y THEN <<>>
    ELSE LET yDiff == lastY - currentY
         IN IF yDiff > 8
            THEN IF yDiff > 24 THEN <<NL, NL>> ELSE <<NL>>
            ELSE IF yDiff < -8 THEN <<" ">>
            ELSE IF Len(soFar) > 0
                    /\ ~IsCJK(soFar[Len(soFar)]) /\ ~IsCJK(str[1])
                    /\ soFar[Len(soFar)] # " " /\ soFar[Len(soFar)] # NL
                 THEN <<" ">>
                 ELSE <<>>

\* the loop over the items of one page, from item j on
RECURSIVE PageLoop(_, _, _, _)
PageLoop(its, j, soFar, lastY) ==
    IF j > Len(its) THEN soFar
    ELSE IF IsSkipped(its[j]) THEN PageLoop(its, j + 1, soFar, lastY)
    ELSE LET currentY == CurrentY(its[j])
         IN PageLoop(its, j + 1,
                     soFar \o Separator(lastY, currentY, soFar, its[j].str)
                          \o its[j].str,
                     currentY)

\* let pageText = ''; let lastY = -9999; for (...) {...}
PageTextOf(its) == PageLoop(its, 1, <<>>, NO_LAST_Y)

DigitChar == <<"0", "1", "2", "3", "4", "5", "6", "7", "8", "9">>

\* a number formatted by a template literal
RECURSIVE NumberToString(_)
NumberToString(n) ==
    IF n < 10 THEN <<DigitChar[n + 1]>>
    ELSE NumberToString(n \div 10) \o <<DigitChar[(n % 10) + 1]>>

\* the page separator that precedes the text of page n
PageMarker(n) ==
    <<"\n", "\n", "-", "-", "-", " ", "u7B2C", " ">> \o NumberToString(n)
        \o <<" ", "u9875", " ", "-", "-", "-", "\n", "\n">>

\* the note appended when the document has more pages than are read
TruncationNotice ==
    <<"\n", "\n", "[", "u6CE8", "uFF1A", "u4E3A", "u4FDD", "u8BC1",
      "u6F14", "u793A", "u6027", "u80FD", "uFF0C", "u4EC5", "u63D0",
      "u53D6", "u4E86", "u524D", " ", "5", "0", " ", "u9875", "u7684",
      "u5185", "u5BB9", ".", ".", ".", "]">>

Min(a, b) == IF a < b THEN a ELSE b

\* a page loop that would run over every page of the document
PagesToReadAll == totalPages

\* const pagesToRead = Math.min(totalPages, 50)
PagesToRead == Min(totalPages, PAGE_CAP)

\* String.prototype.toLowerCase on the ASCII letters
UpperLetters ==
    <<"A", "B", "C", "D", "E", "F", "G", "H", "I", "J", "K", "L", "M",
      "N", "O", "P", "Q", "R", "S", "T", "U", "V", "W", "X", "Y", "Z">>

LowerLetters ==
    <<"a", "b", "c", "d", "e", "f", "g", "h", "i", "j", "k", "l", "m",
      "n", "o", "p", "q", "r", "s", "t", "u", "v", "w", "x", "y", "z">>

LowerChar(c) ==
    IF \E k \in 1..26 : UpperLetters[k] = c
    THEN LowerLetters[CHOOSE k \in 1..26 : UpperLetters[k] = c]
    ELSE c

ToLowerCase(s) == [k \in 1..Len(s) |-> LowerChar(s[k])]

\* String.prototype.includes
Includes(s, sub) ==
    \E k \in 0..(Len(s) - Len(sub)) : SubSeq(s, k + 1, k + Len(sub)) = sub

PasswordExceptionName == <<"P", "a", "s", "s", "w", "o", "r", "d", "E", "x", "c", "e", "p", "t", "i", "o", "n">>

InvalidPDFExceptionName == <<"I", "n", "v", "a", "l", "i", "d", "P", "D", "F", "E", "x", "c", "e", "p", "t", "i", "o", "n">>

UnknownErrorExceptionName == <<"U", "n", "k", "n", "o", "w", "n", "E", "r", "r", "o", "r", "E", "x", "c", "e", "p", "t", "i", "o", "n">>

ErrorName == <<"E", "r", "r", "o", "r">>

\* new Error("PasswordException: PDF Encrypted"), thrown by the onPassword hook
HookMessage == <<"P", "a", "s", "s", "w", "o", "r", "d", "E", "x", "c", "e", "p", "t", "i", "o", "n", ":", " ", "P", "D", "F", " ", "E", "n", "c", "r", "y", "p", "t", "e", "d">>

\* errors that pdf.js or the password hook can raise
PdfErrors ==
    {[name |-> ErrorName, message |-> HookMessage],
     [name |-> PasswordExceptionName, message |-> <<"N", "o", " ", "p", "a", "s", "s", "w", "o", "r", "d", " ", "g", "i", "v", "e", "n">>],
     [name |-> PasswordExceptionName, message |-> <<>>],
     [name |-> InvalidPDFExceptionName, message |-> <<"I", "n", "v", "a", "l", "i", "d", " ", "P", "D", "F", " ", "s", "t", "r", "u", "c", "t", "u", "r", "e", ".">>],
     [name |-> InvalidPDFExceptionName, message |-> <<"I", "n", "v", "a", "l", "i", "d", " ", "P", "a", "s", "s", "w", "o", "r", "d", " ", "e", "n", "t", "r", "y">>],
     [name |-> UnknownErrorExceptionName, message |-> <<"P", "a", "g", "e", " ", "r", "e", "n", "d", "e", "r", " ", "f", "a", "i", "l", "e", "d">>],
     [name |-> ErrorName, message |-> <<>>]}

\* (error.message || error.name || "").toLowerCase().includes('password')
MentionsPassword(e) ==
    LET errorMsg == ToLowerCase(IF e.message # <<>> THEN e.message ELSE e.name)
    IN Includes(errorMsg, <<"p", "a", "s", "s", "w", "o", "r", "d">>)

\* a catch block that would hand back what was extracted so far
PdfThrownPartial(e) ==
    [ok |-> TRUE, text |-> fullText, kind |-> "", detail |-> ""]

\* the catch block: the error thrown to the caller
PdfThrown(e) ==
    IF MentionsPassword(e) \/ e.name = PasswordExceptionName
    THEN [ok |-> FALSE, text |-> <<>>, kind |-> "encrypted", detail |-> ""]
    ELSE IF e.name = InvalidPDFExceptionName
    THEN [ok |-> FALSE, text |-> <<>>, kind |-> "invalid", detail |-> ""]
    ELSE [ok |-> FALSE, text |-> <<>>, kind |-> "failed", detail |-> e.message]

NoError == [name |-> <<>>, message |-> <<>>]

NoResult == [ok |-> FALSE, text |-> <<>>, kind |-> "none", detail |-> ""]

\* await file.arrayBuffer(); await loadingTask.promise: the document opens
PdfLoad(pageCounts) ==
    /\ pdfPc = "load"
    /\ \E n \in pageCounts :
        /\ totalPages' = n
        /\ pdfI' = 1
        /\ fullText' = <<>>
        /\ pdfBody' = <<>>
        /\ pdfPc' = "page"
    /\ UNCHANGED <<items, pageText, pdfResult, caught>>

\* await file.arrayBuffer() or await loadingTask.promise rejects
PdfLoadFails ==
    /\ pdfPc = "load"
    /\ \E e \in PdfErrors :
        /\ pdfResult' = PdfThrown(e)
        /\ caught' = e
        /\ pdfPc' = "failed"
    /\ UNCHANGED <<totalPages, pdfI, fullText, items, pageText, pdfBody>>

\* one iteration of the page loop: getPage, getTextContent, the item loop
PdfPage(pageSet) ==
    /\ pdfPc = "page"
    /\ pdfI <= PagesToRead
    /\ \E its \in pageSet :
        /\ items' = its
        /\ pageText' = PageTextOf(its)
        /\ fullText' = fullText \o PageMarker(pdfI) \o PageTextOf(its)
        /\ pdfBody' = pdfBody \o PageTextOf(its)
    /\ pdfI' = pdfI + 1
    /\ UNCHANGED <<pdfPc, totalPages, pdfResult, caught>>

\* await pdf.getPage(i) or await page.getTextContent() rejects
PdfPageFails ==
    /\ pdfPc = "page"
    /\ pdfI <= PagesToRead
    /\ \E e \in PdfErrors :
        /\ pdfResult' = PdfThrown(e)
        /\ caught' = e
        /\ pdfPc' = "failed"
    /\ UNCHANGED <<totalPages, pdfI, fullText, items, pageText, pdfBody>>

\* after the page loop: the truncation notice and return fullText
PdfReturn ==
    /\ pdfPc = "page"
    /\ pdfI > PagesToRead
    /\ LET t == IF totalPages > PAGE_CAP THEN fullText \o TruncationNotice
                ELSE fullText
       IN /\ fullText' = t
          /\ pdfResult' = [ok |-> TRUE, text |-> t, kind |-> "", detail |-> ""]
    /\ pdfPc' = "done"
    /\ UNCHANGED <<totalPages, pdfI, items, pageText, pdfBody, caught>>

PdfInitAt(pc) ==
    /\ pdfPc = pc
    /\ totalPages = 0
    /\ pdfI = 0
    /\ fullText = <<>>
    /\ items = <<>>
    /\ pageText = <<>>
    /\ pdfResult = NoResult
    /\ pdfBody = <<>>
    /\ caught = NoError

\* baselines of text items: around the thresholds 24, 8 and -8
YVals == {NO_LAST_Y, 0, 8, 9, 24, 25}

LayoutStrs == {<<>>, <<" ">>, <<"a">>, <<"u4E2D">>}

LayoutItems ==
    [str : LayoutStrs, transform : {<<1, 0, 0, 1, 0, y>> : y \in YVals}]
        \cup {[str |-> <<"a">>, transform |-> <<>>]}

\* item lists of a page
LayoutPages == UNION {[1..k -> LayoutItems] : k \in 0..MaxItems}

-----------------------------------------------------------------------------
(* TextDecoder *)

\* the value of a byte: the bytes outside ASCII and the ASCII bytes of the model
ByteValue(b) ==
    CASE b = "xD6" -> 214
      [] b = "xD0" -> 208
      [] b = "xE4" -> 228
      [] b = "xB8" -> 184
      [] b = "xAD" -> 173
      [] b = "xFF" -> 255
      [] b = "x00" -> 0
      [] b = "\n" -> 10
      [] BaseChar(b) = " " -> 32
      [] BaseChar(b) = "#" -> 35
      [] b = "<" -> 60
      [] b = ">" -> 62
      [] BaseChar(b) = "a" -> 97
      [] BaseChar(b) = "x" -> 120
      [] OTHER -> 63

\* the character of a decoded code point
CharOfCodePoint(cp) == IF cp = 20013 THEN "u4E2D" ELSE "uOTHER"

REPLACEMENT == "uFFFD"

\* a block without its first character
BlockRest(b) == [k \in 1..(CharLen(b) - 1) |-> BaseChar(b)]

\* new TextDecoder('utf-8', { fatal: false }).decode: the bytes from j on,
\* with `needed` continuation bytes awaited for the code point cp
RECURSIVE Utf8Loop(_, _, _, _, _, _)
Utf8Loop(bs, j, needed, cp, lower, upper) ==
    IF j > Len(bs)
    THEN IF needed # 0 THEN <<REPLACEMENT>> ELSE <<>>
    ELSE LET b == bs[j]
             v == ByteValue(b)
         IN IF needed = 0
            THEN IF v < 128
                 THEN <<b>> \o Utf8Loop(bs, j + 1, 0, 0, 128, 191)
                 ELSE IF v >= 194 /\ v <= 223
                 THEN Utf8Loop(bs, j + 1, 1, v - 192, 128, 191)
                 ELSE IF v >= 224 /\ v <= 239
                 THEN Utf8Loop(bs, j + 1, 2, v - 224,
                               IF v = 224 THEN 160 ELSE 128,
                               IF v = 237 THEN 159 ELSE 191)
                 ELSE IF v >= 240 /\ v <= 244
                 THEN Utf8Loop(bs, j + 1, 3, v - 240,
                               IF v = 240 THEN 144 ELSE 128,
                               IF v = 244 THEN 143 ELSE 191)
                 ELSE <<REPLACEMENT>> \o Utf8Loop(bs, j + 1, 0, 0, 128, 191)
            ELSE IF v < lower \/ v > upper
                 THEN \* the byte is not a continuation: it is decoded again
                      <<REPLACEMENT>> \o Utf8Loop(bs, j, 0, 0, 128, 191)
                 ELSE IF needed = 1
                 THEN <<CharOfCodePoint(cp * 64 + (v - 128))>>
                          \o Utf8Loop(bs, j + 1, 0, 0, 128, 191)
                 ELSE Utf8Loop(bs, j + 1, needed - 1, cp * 64 + (v - 128),
                               128, 191)

Utf8Decode(bs) == Utf8Loop(bs, 1, 0, 0, 128, 191)

\* the character of a two-byte GB18030 pointer ((0xD6, 0xD0) is U+4E2D)
CharOfGbPointer(ptr) == IF ptr = 16293 THEN "u4E2D" ELSE "uOTHER"

\* new TextDecoder('gb18030').decode: the bytes from j on, after the lead
\* byte first of an unfinished sequence (0: none).  The four-byte forms (a
\* lead byte followed by an ASCII digit) are left out: no file of the model
\* holds a digit.
RECURSIVE GbLoop(_, _, _)
GbLoop(bs, j, first) ==
    IF j > Len(bs)
    THEN IF first # 0 THEN <<REPLACEMENT>> ELSE <<>>
    ELSE LET b == bs[j]
             v == ByteValue(b)
             rest == IF b \in Blocks THEN BlockRest(b) ELSE <<>>
         IN IF first # 0
            THEN IF (v >= 64 /\ v <= 126) \/ (v >= 128 /\ v <= 254)
                 THEN <<CharOfGbPointer((first - 129) * 190
                                        + (v - (IF v < 127 THEN 64 ELSE 65)))>>
                          \o rest \o GbLoop(bs, j + 1, 0)
                 ELSE IF v < 128
                 THEN \* an ASCII byte that is no trail byte is decoded again
                      <<REPLACEMENT>> \o GbLoop(bs, j, 0)
                 ELSE <<REPLACEMENT>> \o GbLoop(bs, j + 1, 0)
            ELSE IF v < 128
            THEN <<b>> \o GbLoop(bs, j + 1, 0)
            ELSE IF v = 128
            THEN <<"u20AC">> \o GbLoop(bs, j + 1, 0)
            ELSE IF v >= 129 /\ v <= 254
            THEN GbLoop(bs, j + 1, v)
            ELSE <<REPLACEMENT>> \o GbLoop(bs, j + 1, 0)

Gb18030Decode(bs) == GbLoop(bs, 1, 0)

\* (s.match(/\uFFFD/g) || []).length
RECURSIVE ReplacementCount(_)
ReplacementCount(s) ==
    IF s = <<>> THEN 0
    ELSE (IF Head(s) = REPLACEMENT THEN 1 ELSE 0) + ReplacementCount(Tail(s))

-----------------------------------------------------------------------------
(* readTextFile *)

\* a test that would take a count of exactly 1% of the length as too many
LooksMisdecodedInclusive(utf8Text) ==
    LET replacementCount == ReplacementCount(utf8Text)
    IN replacementCount > 0 /\ replacementCount * 100 >= StrLen(utf8Text)

\* replacementCount > 0 && replacementCount > utf8Text.length * 0.01
LooksMisdecoded(utf8Text) ==
    LET replacementCount == ReplacementCount(utf8Text)
    IN replacementCount > 0 /\ replacementCount * 100 > StrLen(utf8Text)

\* the text readTextFile returns; gbOk is FALSE where the GB18030 decoder
\* throws (the label is not supported) and the catch keeps the UTF-8 text
ReadTextFile(bs, gbOk) ==
    LET utf8Text == Utf8Decode(bs)
    IN IF LooksMisdecoded(utf8Text) /\ gbOk THEN Gb18030Decode(bs) ELSE utf8Text

-----------------------------------------------------------------------------
(* extractTextFromMobi *)

WordChars == {"a", "b", "x", "A", "B", "M", "O", "I", "E", "P", "U", "_", "0",
              "1", "5"}

\* code points of the characters outside ASCII that decoded text carries
TextUCode ==
    [c \in {"u3000", "u4E2D", "uFF0C", "uFFFD", "uOTHER", "u20AC"} |->
        CASE c = "u3000" -> 12288
          [] c = "u4E2D" -> 20013
          [] c = "uFF0C" -> 65292
          [] c = "uFFFD" -> 65533
          [] c = "uOTHER" -> 28051
          [] c = "u20AC" -> 8364]

\* the character class of the regex:
\*   [\w\s\u4e00-\u9fa5\u3000-\u303f\uff00-\uffef,.?!:;"'()<>\[\]\n\r-]
IsReadable(c) ==
    \/ BaseChar(c) \in WordChars
    \/ IsSpace(c)
    \/ /\ c \in DOMAIN TextUCode
       /\ LET cp == TextUCode[c]
          IN \/ cp >= 19968 /\ cp <= 40869
             \/ cp >= 12288 /\ cp <= 12351
             \/ cp >= 65280 /\ cp <= 65519
    \/ c \in {",", ".", "?", "!", ":", ";", "\"", "'", "(", ")", "<", ">", "[",
              "]", "-"}

\* rawText.match(regex): the maximal runs of readable characters from j on
\* that are at least 10 characters long; run is the run being read
RECURSIVE ReadableRuns(_, _, _)
ReadableRuns(s, j, run) ==
    IF j > Len(s)
    THEN IF StrLen(run) >= 10 THEN <<run>> ELSE <<>>
    ELSE IF IsReadable(s[j])
    THEN ReadableRuns(s, j + 1, Append(run, s[j]))
    ELSE (IF StrLen(run) >= 10 THEN <<run>> ELSE <<>>)
             \o ReadableRuns(s, j + 1, <<>>)

\* matches.join('\n')
RECURSIVE JoinLines(_)
JoinLines(ms) ==
    IF ms = <<>> THEN <<>>
    ELSE IF Len(ms) = 1 THEN ms[1]
    ELSE ms[1] \o <<NL>> \o JoinLines(Tail(ms))

\* s.replace(/<[^>]*>/g, '')
RECURSIVE StripTags(_)
StripTags(s) ==
    IF s = <<>> THEN <<>>
    ELSE IF Head(s) = "<" /\ \E k \in 2..Len(s) : s[k] = ">"
    THEN LET k == CHOOSE k \in 2..Len(s) :
                      s[k] = ">" /\ \A h \in 2..(k - 1) : s[h] # ">"
         IN StripTags(SubSeq(s, k + 1, Len(s)))
    ELSE <<Head(s)>> \o StripTags(Tail(s))

\* rawText.replace(/[^\x20-\x7E\n\r\t]/g, '')
PrintableAscii(s) ==
    SelectSeq(s, LAMBDA c : c \notin DOMAIN TextUCode
                            /\ LET v == ByteValue(c)
                               IN (v >= 32 /\ v <= 126) \/ v \in {9, 10, 13})

\* the advisory that precedes the text of a MOBI file
MobiNotice ==
    <<"u3010", "u6CE8", "u610F", "uFF1A", "M", "O", "B", "I", " ", "u683C",
      "u5F0F", "u4F7F", "u7528", "u7EAF", "u6587", "u672C", "u63D0",
      "u53D6", "u6A21", "u5F0F", "uFF0C", "u53EF", "u80FD", "u4F1A",
      "u4E22", "u5931", "u90E8", "u5206", "u6392", "u7248", "u683C",
      "u5F0F", "u3002", "u5EFA", "u8BAE", "u4F7F", "u7528", " ", "E", "P",
      "U", "B", " ", "u683C", "u5F0F", "u83B7", "u5F97", "u6700", "u4F73",
      "u4F53", "u9A8C", "u3002", "u3011", "\n", "\n">>

\* the text recovered from the file, before the notice is put in front of it
MobiBody(bs) == StripTags(JoinLines(ReadableRuns(Utf8Decode(bs), 1, <<>>)))

\* what extractTextFromMobi returns or throws for the bytes bs
MobiExtract(bs) ==
    LET rawText == Utf8Decode(bs)
        matches == ReadableRuns(rawText, 1, <<>>)
        asciiText == PrintableAscii(rawText)
    IN IF Len(matches) = 0
       THEN IF StrLen(asciiText) > 100
            THEN [ok |-> TRUE, text |-> asciiText, kind |-> "", detail |-> ""]
            ELSE [ok |-> FALSE, text |-> <<>>, kind |-> "mobi", detail |-> ""]
       ELSE [ok |-> TRUE, text |-> MobiNotice \o MobiBody(bs), kind |-> "",
             detail |-> ""]

-----
(* extractTextFromEpub *)

\* markup of a content document: each tag is one element of the string
HtmlTags == {"<p>", "</p>", "<br>"}

\* stripHtml: doc.body.textContent, the text nodes without the markup
StripHtml(html) == SelectSeq(html, LAMBDA c : c \notin HtmlTags)

\* the percent escapes the paths of the model use, and the character of each
PercentChar(h1, h2) ==
    CASE h1 = "6" /\ h2 = "1" -> "a"
      [] h1 = "6" /\ h2 = "2" -> "b"
      [] h1 = "2" /\ h2 = "0" -> " "
      [] OTHER -> ""

\* decodeURIComponent: ok is FALSE where it throws URIError
RECURSIVE DecodeURIComponent(_)
DecodeURIComponent(p) ==
    IF p = <<>> THEN [ok |-> TRUE, str |-> <<>>]
    ELSE IF Head(p) # "%"
    THEN LET r == DecodeURIComponent(Tail(p))
         IN [ok |-> r.ok, str |-> <<Head(p)>> \o r.str]
    ELSE IF Len(p) < 3 \/ PercentChar(p[2], p[3]) = ""
    THEN [ok |-> FALSE, str |-> <<>>]
    ELSE LET r == DecodeURIComponent(SubSeq(p, 4, Len(p)))
         IN [ok |-> r.ok, str |-> <<PercentChar(p[2], p[3])>> \o r.str]

\* opfPath.lastIndexOf('/') + 1, as a count of characters
RECURSIVE LastSlash(_)
LastSlash(p) ==
    IF p = <<>> THEN 0
    ELSE IF p[Len(p)] = "/" THEN Len(p)
    ELSE LastSlash(SubSeq(p, 1, Len(p) - 1))

\* opfPath.substring(0, opfPath.lastIndexOf('/') + 1)
OpfDirOf(opfPath) == SubSeq(opfPath, 1, LastSlash(opfPath))

\* Array.from(manifest.getElementsByTagName("item")).find(i => id === idref):
\* the position of the first item with that id, 0 when there is none
RECURSIVE FindItem(_, _, _)
FindItem(its, idref, j) ==
    IF j > Len(its) THEN 0
    ELSE IF its[j].id = idref THEN j
    ELSE FindItem(its, idref, j + 1)

\* a lookup that would take the item at the spine position instead of by id
ItemOfByPosition(idref) ==
    IF epubK <= Len(zip.manifest) THEN epubK ELSE 0

\* the manifest item a spine idref resolves to (0: none)
ItemOf(idref) == FindItem(zip.manifest, idref, 1)

\* zip.file(key)?.async("string"): the entry's text, "" when there is no entry
EntryText(key) == IF key \in DOMAIN zip.files THEN zip.files[key] ELSE <<>>

\* the catch block: throw new Error("EPUB ... : " + e.message)
EpubThrown(msg) == [ok |-> FALSE, text |-> <<>>, kind |-> "epub", detail |-> msg]

\* JSZip.loadAsync, container.xml, the OPF: the archive is opened and parsed
EpubOpen(archives) ==
    /\ epubPc = "open"
    /\ \E a \in archives :
        /\ zip' = a
        /\ IF ~a.hasContainer
           THEN /\ epubResult' = EpubThrown("Invalid EPUB: Missing container.xml")
                /\ epubPc' = "failed"
                /\ UNCHANGED <<opfDir, epubK, epubText, emitted>>
           ELSE IF a.opfPath = <<>>
           THEN /\ epubResult' = EpubThrown("Invalid EPUB: Cannot find OPF path")
                /\ epubPc' = "failed"
                /\ UNCHANGED <<opfDir, epubK, epubText, emitted>>
           ELSE IF ~a.hasOpf
           THEN /\ epubResult' = EpubThrown("Invalid EPUB: Missing OPF file")
                /\ epubPc' = "failed"
                /\ UNCHANGED <<opfDir, epubK, epubText, emitted>>
           ELSE IF ~a.hasSpine
           THEN \* spine is undefined: spine.getElementsByTagName throws
                /\ epubResult' = EpubThrown("TypeError")
                /\ epubPc' = "failed"
                /\ UNCHANGED <<opfDir, epubK, epubText, emitted>>
           ELSE /\ opfDir' = OpfDirOf(a.opfPath)
                /\ epubK' = 1
                /\ epubText' = <<>>
                /\ emitted' = <<>>
                /\ epubPc' = "spine"
                /\ UNCHANGED epubResult

\* JSZip.loadAsync or the read of container.xml or of the OPF rejects
EpubOpenFails ==
    /\ epubPc = "open"
    /\ epubResult' = EpubThrown("Corrupted zip")
    /\ epubPc' = "failed"
    /\ UNCHANGED <<zip, opfDir, epubK, epubText, emitted>>

\* one iteration of the loop over the spine's itemrefs
EpubItem ==
    /\ epubPc = "spine"
    /\ epubK <= Len(zip.spine)
    /\ LET idref == zip.spine[epubK]
       IN IF idref = ""
          THEN \* if (!idref) continue
               /\ epubK' = epubK + 1
               /\ UNCHANGED <<epubPc, epubText, emitted, epubResult>>
          ELSE IF ~zip.hasManifest
          THEN \* manifest is undefined: manifest.getElementsByTagName throws
               /\ epubResult' = EpubThrown("TypeError")
               /\ epubPc' = "failed"
               /\ UNCHANGED <<epubK, epubText, emitted>>
          ELSE LET j == ItemOf(idref)
                   href == IF j = 0 THEN <<>> ELSE zip.manifest[j].href
                   key == DecodeURIComponent(opfDir \o href)
               IN IF href = <<>>
                  THEN /\ epubK' = epubK + 1
                       /\ UNCHANGED <<epubPc, epubText, emitted, epubResult>>
                  ELSE IF ~key.ok
                  THEN /\ epubResult' = EpubThrown("URI malformed")
                       /\ epubPc' = "failed"
                       /\ UNCHANGED <<epubK, epubText, emitted>>
                  ELSE IF EntryText(key.str) = <<>>
                  THEN /\ epubK' = epubK + 1
                       /\ UNCHANGED <<epubPc, epubText, emitted, epubResult>>
                  ELSE /\ epubText' = epubText \o StripHtml(EntryText(key.str))
                                               \o <<NL, NL>>
                       /\ emitted' = Append(emitted, idref)
                       /\ epubK' = epubK + 1
                       /\ UNCHANGED <<epubPc, epubResult>>
    /\ UNCHANGED <<zip, opfDir>>

\* await zip.file(fileKey).async("string") rejects for the current item
EpubItemFails ==
    /\ epubPc = "spine"
    /\ epubK <= Len(zip.spine)
    /\ zip.spine[epubK] # ""
    /\ zip.hasManifest
    /\ LET j == ItemOf(zip.spine[epubK])
       IN /\ j # 0
          /\ zip.manifest[j].href # <<>>
          /\ LET key == DecodeURIComponent(opfDir \o zip.manifest[j].href)
             IN key.ok /\ key.str \in DOMAIN zip.files
    /\ epubResult' = EpubThrown("Corrupted zip entry")
    /\ epubPc' = "failed"
    /\ UNCHANGED <<zip, opfDir, epubK, epubText, emitted>>

\* a final test that would let an empty text through
AppearsEmptyNever(t) == FALSE

\* if (!fullText.trim())
AppearsEmpty(t) == IsBlank(t)

\* after the loop: the blank check and return fullText
EpubReturn ==
    /\ epubPc = "spine"
    /\ epubK > Len(zip.spine)
    /\ IF AppearsEmpty(epubText)
       THEN /\ epubResult' = EpubThrown("EPUB content appears empty")
            /\ epubPc' = "failed"
       ELSE /\ epubResult' = [ok |-> TRUE, text |-> epubText, kind |-> "",
                              detail |-> ""]
            /\ epubPc' = "done"
    /\ UNCHANGED <<zip, opfDir, epubK, epubText, emitted>>

NoArchive ==
    [hasContainer |-> FALSE, opfPath |-> <<>>, hasOpf |-> FALSE,
     hasManifest |-> FALSE, manifest |-> <<>>, hasSpine |-> FALSE,
     spine |-> <<>>, files |-> <<>>]

EpubInitAt(pc) ==
    /\ epubPc = pc
    /\ zip = NoArchive
    /\ opfDir = <<>>
    /\ epubK = 0
    /\ epubText = <<>>
    /\ emitted = <<>>
    /\ epubResult = NoResult

\* manifest items: id and href (an href of <<>> is an item without one)
ManifestItems ==
    {[id |-> "a", href |-> <<"a">>], [id |-> "b", href |-> <<"%", "6", "2">>],
     [id |-> "b", href |-> <<"a">>], [id |-> "c", href |-> <<"c">>],
     [id |-> "d", href |-> <<"%">>], [id |-> "e", href |-> <<>>]}

\* spine idrefs ("" is an itemref without idref, "z" is in no manifest)
SpineRefs == {"a", "b", "c", "d", "e", "z", ""}

\* content documents of the archive, by path
ChapterFiles ==
    {[p \in {<<"d", "/", "a">>, <<"d", "/", "b">>} |->
         IF p = <<"d", "/", "a">> THEN <<"<p>", "A", "</p>">>
         ELSE <<"B", "<br>", "b">>],
     [p \in {<<"d", "/", "a">>, <<"d", "/", "c">>} |->
         IF p = <<"d", "/", "a">> THEN <<"<p>", " ", "</p>">> ELSE <<>>],
     [p \in {<<"a">>, <<"b">>} |->
         IF p = <<"a">> THEN <<"A">> ELSE <<"<p>", "B", "</p>">>]}

\* archives whose container and OPF are in place
GoodArchives ==
    [hasContainer : {TRUE}, opfPath : {<<"d", "/", "o">>, <<"o">>},
     hasOpf : {TRUE}, hasManifest : {TRUE},
     manifest : UNION {[1..k -> ManifestItems] : k \in 0..MaxManifest},
     hasSpine : {TRUE},
     spine : UNION {[1..k -> SpineRefs] : k \in 0..MaxSpine},
     files : ChapterFiles]

\* archives with a part of the package missing
BrokenArchives ==
    {[NoArchive EXCEPT !.hasContainer = c, !.opfPath = o, !.hasOpf = f,
                       !.hasManifest = m, !.hasSpine = sp, !.spine = s,
                       !.manifest = IF m THEN <<[id |-> "a", href |-> <<"a">>]>>
                                   ELSE <<>>,
                       !.files = [p \in {<<"a">>} |-> <<"A">>]] :
        c \in BOOLEAN, o \in {<<>>, <<"o">>}, f \in BOOLEAN, m \in BOOLEAN,
        sp \in BOOLEAN, s \in {<<>>, <<"a">>}}

-----------------------------------------------------------------------------
(* Library.processFile *)

MAX_FILE_SIZE == 50 * 1024 * 1024

\* String.prototype.endsWith
EndsWith(s, suffix) ==
    /\ Len(s) >= Len(suffix)
    /\ SubSeq(s, Len(s) - Len(suffix) + 1, Len(s)) = suffix

\* file.size > MAX_FILE_SIZE, with the limit itself taken for too large
TooLargeInclusive(f) == f.size >= MAX_FILE_SIZE

\* if (file.size > MAX_FILE_SIZE)
TooLarge(f) == f.size > MAX_FILE_SIZE

\* a dispatch that compares the name as it is written
ExtractorCaseSensitive(f) ==
    IF f.type = "application/pdf" \/ EndsWith(f.name, <<".", "p", "d", "f">>)
    THEN "pdf"
    ELSE IF EndsWith(f.name, <<".", "e", "p", "u", "b">>) THEN "epub"
    ELSE IF EndsWith(f.name, <<".", "m", "o", "b", "i">>) THEN "mobi"
    ELSE "text"

\* the branch of the if/else-if chain that handles the file
Extractor(f) ==
    LET fileName == ToLowerCase(f.name)
    IN IF f.type = "application/pdf" \/ EndsWith(fileName, <<".", "p", "d", "f">>)
       THEN "pdf"
       ELSE IF EndsWith(fileName, <<".", "e", "p", "u", "b">>) THEN "epub"
       ELSE IF EndsWith(fileName, <<".", "m", "o", "b", "i">>) THEN "mobi"
       ELSE "text"

\* format = fileName.endsWith('.md') ? 'md' : 'txt'
TextFormat(f) ==
    IF EndsWith(ToLowerCase(f.name), <<".", "m", "d">>) THEN "md" ELSE "txt"

NoAlert == [kind |-> "none", detail |-> ""]

\* the rest of the try block once the extractor has handed back r, up to the
\* next await; a throw runs the catch (the alert) and the finally
AfterExtract(r, fmt, body) ==
    /\ docText' = body
    /\ IF ~r.ok
       THEN \* the extractor threw
            /\ alert' = [kind |-> "upload-failed", detail |-> r.kind]
            /\ isUploading' = FALSE
            /\ lpc' = "done"
            /\ UNCHANGED <<text, format>>
       ELSE IF IsBlank(r.text)
       THEN \* if (!text.trim()) throw
            /\ text' = r.text
            /\ format' = fmt
            /\ alert' = [kind |-> "upload-failed", detail |-> "empty"]
            /\ isUploading' = FALSE
            /\ lpc' = "done"
       ELSE /\ text' = r.text
            /\ format' = fmt
            /\ lpc' = "metadata"
            /\ UNCHANGED <<alert, isUploading>>
    /\ UNCHANGED <<file, books, calls>>

\* processFile is called: the size check, setIsUploading(true), the dispatch
ProcessFile ==
    /\ lpc = "idle"
    /\ IF TooLarge(file)
       THEN /\ alert' = [kind |-> "too-large", detail |-> ""]
            /\ lpc' = "done"
            /\ UNCHANGED <<isUploading, calls, pdfVars, epubVars>>
       ELSE /\ isUploading' = TRUE
            /\ calls' = Append(calls, Extractor(file))
            /\ lpc' = "extract"
            /\ pdfPc' = IF Extractor(file) = "pdf" THEN "load" ELSE pdfPc
            /\ epubPc' = IF Extractor(file) = "epub" THEN "open" ELSE epubPc
            /\ UNCHANGED <<alert, totalPages, pdfI, fullText, items, pageText,
                           pdfResult, pdfBody, caught, zip, opfDir, epubK, epubText,
                           emitted, epubResult>>
    /\ UNCHANGED <<file, text, format, books, docText, buffer, gbSupported>>

\* text = await extractTextFromPdf(file) settles
PdfSettles ==
    /\ lpc = "extract"
    /\ calls[Len(calls)] = "pdf"
    /\ pdfPc \in {"done", "failed"}
    /\ AfterExtract(pdfResult, "pdf", pdfBody)
    /\ UNCHANGED <<buffer, gbSupported>>

\* text = await extractTextFromEpub(file) settles
EpubSettles ==
    /\ lpc = "extract"
    /\ calls[Len(calls)] = "epub"
    /\ epubPc \in {"done", "failed"}
    /\ AfterExtract(epubResult, "epub", epubText)
    /\ UNCHANGED <<buffer, gbSupported>>

\* text = await extractTextFromMobi(file): the bytes are read and decoded
MobiSettles(byteStrings) ==
    /\ lpc = "extract"
    /\ calls[Len(calls)] = "mobi"
    /\ \E bs \in byteStrings :
        /\ AfterExtract(MobiExtract(bs), "mobi",
                        IF Len(ReadableRuns(Utf8Decode(bs), 1, <<>>)) = 0
                        THEN PrintableAscii(Utf8Decode(bs)) ELSE MobiBody(bs))
        /\ buffer' = bs
    /\ UNCHANGED gbSupported

\* text = await readTextFile(file): the bytes are read and decoded
TextSettles(byteStrings) ==
    /\ lpc = "extract"
    /\ calls[Len(calls)] = "text"
    /\ \E bs \in byteStrings, gbOk \in BOOLEAN :
        LET t == ReadTextFile(bs, gbOk)
        IN /\ AfterExtract([ok |-> TRUE, text |-> t, kind |-> "", detail |-> ""],
                           TextFormat(file), t)
           /\ buffer' = bs
           /\ gbSupported' = gbOk

\* await file.arrayBuffer() rejects in extractTextFromMobi or readTextFile
ReadFails ==
    /\ lpc = "extract"
    /\ calls[Len(calls)] \in {"mobi", "text"}
    /\ AfterExtract([ok |-> FALSE, text |-> <<>>,
                     kind |-> calls[Len(calls)], detail |-> ""],
                    format, <<>>)
    /\ UNCHANGED <<buffer, gbSupported>>

\* await generateBookMetadata(...) settles; the placeholder cover URL reads
\* metadata.title, which throws when the model's JSON carries no title
Metadata ==
    /\ lpc = "metadata"
    /\ \E hasTitle \in BOOLEAN :
        IF hasTitle
        THEN /\ lpc' = "cover"
             /\ UNCHANGED <<alert, isUploading>>
        ELSE /\ alert' = [kind |-> "upload-failed", detail |-> "TypeError"]
             /\ isUploading' = FALSE
             /\ lpc' = "done"
    /\ UNCHANGED <<file, text, format, books, calls, docText, buffer,
                   gbSupported>>

\* await generateCoverImage(...) settles either way; onAddBook; the finally
Cover ==
    /\ lpc = "cover"
    /\ books' = Append(books, [id |-> Len(books) + 1, content |-> text,
                               format |-> format, progress |-> Zero])
    /\ isUploading' = FALSE
    /\ lpc' = "done"
    /\ UNCHANGED <<file, text, format, alert, calls, docText, buffer,
                   gbSupported>>

NoFile == [name |-> <<>>, type |-> "", size |-> 0]

LibInitWith(f, pc) ==
    /\ file = f
    /\ lpc = pc
    /\ isUploading = FALSE
    /\ text = <<>>
    /\ format = "txt"
    /\ books = <<>>
    /\ alert = NoAlert
    /\ calls = <<>>
    /\ docText = <<>>
    /\ buffer = <<>>
    /\ gbSupported = TRUE

\* file names
FileNames ==
    {<<"a", ".", "p", "d", "f">>, <<"A", ".", "P", "D", "F">>,
     <<"b", ".", "e", "p", "u", "b">>, <<"b", ".", "E", "p", "u", "B">>,
     <<"m", ".", "m", "o", "b", "i">>, <<"m", ".", "M", "O", "B", "I">>,
     <<"n", ".", "m", "d">>, <<"n", ".", "M", "D">>,
     <<"t", ".", "t", "x", "t">>, <<"x", ".", "x", "y", "z">>,
     <<"p", "d", "f">>, <<"a", ".", "p", "d", "f", ".", "t", "x", "t">>,
     <<"a", ".", "e", "p", "u", "b", ".", "p", "d", "f">>, <<>>}

\* file.type as the browser reports it
FileTypes == {"", "application/pdf", "text/plain", "application/epub+zip"}

FileSizes == {0, MAX_FILE_SIZE - 1, MAX_FILE_SIZE, MAX_FILE_SIZE + 1}

Files == [name : FileNames, type : FileTypes, size : FileSizes]

\* pages of the PDF documents handed to processFile
FilePages ==
    {<<>>,
     <<[str |-> <<" ">>, transform |-> <<1, 0, 0, 1, 0, 9>>]>>,
     <<[str |-> <<"a">>, transform |-> <<1, 0, 0, 1, 0, 9>>]>>}

\* archives handed to processFile
FileArchives ==
    {a \in GoodArchives :
        /\ a.opfPath = <<"d", "/", "o">>
        /\ a.manifest \in {<<[id |-> "a", href |-> <<"a">>],
                             [id |-> "b", href |-> <<"%", "6", "2">>]>>,
                           <<[id |-> "a", href |-> <<"a">>],
                             [id |-> "d", href |-> <<"%">>]>>}
        /\ a.spine \in {<<"a", "b">>, <<"a", "d">>, <<"z">>}}
    \cup {NoArchive}

\* contents of the MOBI and text files handed to processFile
FileBytes ==
    {<<>>, <<" ", "\n">>, <<"a">>, <<"S10">>, <<"X8", "a", "a", "x00">>,
     <<"x00", "xFF">>, <<"xD6", "xD0">>, <<"xE4", "xB8", "xAD">>,
     <<"H100", "#">>, <<"H100">>, <<"xD6", "xD0", "A99">>,
     <<"xD6", "xD0", "A99", "A99">>}

-----
(* Specifications *)

\* one pagination of any text
Init ==
    /\ \E t \in StringsUpTo(ReaderAlphabet, MaxTextLen) : ReaderInitWith(t)
    /\ AppInit
    /\ PdfInitAt("idle")
    /\ EpubInitAt("idle")
    /\ LibInitWith(NoFile, "off")

Next == StartRun \/ LineStep \/ FinishRun

Spec == Init /\ [][Next]_vars

\* what stands before a heading: lines that fill a page to 960, to 961, ...
HeadingPrefixes == StringsUpTo({"X240", "X480", "X961", "x", NL}, MaxPrefixLen)

\* what follows a heading: nothing, lines that close the page, a second heading
HeadingSuffixes ==
    {<<>>, <<NL, "X240">>, <<NL, "X961">>, <<NL, "X961", NL, "x">>,
     <<NL, "#", "#", " ", "x">>, <<NL, "X240", NL, "#", " ", "x">>,
     <<NL, "X961", NL, "#", " ", "x", NL, "x">>}

\* texts with a heading line "# x" inside
HeadingTexts ==
    {p \o <<NL, "#", " ", "x">> \o q : p \in HeadingPrefixes,
                                       q \in HeadingSuffixes}

\* one pagination of a text with a heading
InitToc ==
    /\ \E t \in HeadingTexts : ReaderInitWith(t)
    /\ AppInit
    /\ PdfInitAt("idle")
    /\ EpubInitAt("idle")
    /\ LibInitWith(NoFile, "off")

SpecToc == InitToc /\ [][Next]_vars

\* repeated paginations, of the same text and of others in between
InitRepaginate ==
    /\ \E t \in StringsUpTo(ReaderAlphabet, MaxReTextLen) : ReaderInitWith(t)
    /\ AppInit
    /\ PdfInitAt("idle")
    /\ EpubInitAt("idle")
    /\ LibInitWith(NoFile, "off")

NextRepaginate == StartRun \/ LineStep \/ FinishRun \/ OpenBook

SpecRepaginate == InitRepaginate /\ [][NextRepaginate]_vars

\* extractTextFromPdf called on a document, with its layout in view
InitPdf ==
    /\ ReaderInitWith(<<>>)
    /\ AppInit
    /\ PdfInitAt("load")
    /\ EpubInitAt("idle")
    /\ LibInitWith(NoFile, "off")

NextPdf ==
    \/ (PdfLoad(0..MaxPdfPages) /\ UNCHANGED <<readerVars, appVars, epubVars, libVars>>)
    \/ (PdfLoadFails /\ UNCHANGED <<readerVars, appVars, epubVars, libVars>>)
    \/ (PdfPage(LayoutPages) /\ UNCHANGED <<readerVars, appVars, epubVars, libVars>>)
    \/ (PdfPageFails /\ UNCHANGED <<readerVars, appVars, epubVars, libVars>>)
    \/ (PdfReturn /\ UNCHANGED <<readerVars, appVars, epubVars, libVars>>)

SpecPdf == InitPdf /\ [][NextPdf]_vars

\* page counts around the cap of 50 pages
CapPageCounts == {0, 1, PAGE_CAP - 1, PAGE_CAP, PAGE_CAP + 1}

\* the one page the long documents repeat: a single run "a"
CapPages == {<<[str |-> <<"a">>, transform |-> <<1, 0, 0, 1, 0, 9>>]>>}

\* extractTextFromPdf called on documents of up to 51 pages
NextPdfCap ==
    \/ (PdfLoad(CapPageCounts) /\ UNCHANGED <<readerVars, appVars, epubVars, libVars>>)
    \/ (PdfLoadFails /\ UNCHANGED <<readerVars, appVars, epubVars, libVars>>)
    \/ (PdfPage(CapPages) /\ UNCHANGED <<readerVars, appVars, epubVars, libVars>>)
    \/ (PdfPageFails /\ UNCHANGED <<readerVars, appVars, epubVars, libVars>>)
    \/ (PdfReturn /\ UNCHANGED <<readerVars, appVars, epubVars, libVars>>)

SpecPdfCap == InitPdf /\ [][NextPdfCap]_vars

\* extractTextFromEpub called on an archive
InitEpub ==
    /\ ReaderInitWith(<<>>)
    /\ AppInit
    /\ PdfInitAt("idle")
    /\ EpubInitAt("open")
    /\ LibInitWith(NoFile, "off")

NextEpub ==
    \/ (EpubOpen(GoodArchives \cup BrokenArchives)
            /\ UNCHANGED <<readerVars, appVars, pdfVars, libVars>>)
    \/ (EpubOpenFails /\ UNCHANGED <<readerVars, appVars, pdfVars, libVars>>)
    \/ (EpubItem /\ UNCHANGED <<readerVars, appVars, pdfVars, libVars>>)
    \/ (EpubItemFails /\ UNCHANGED <<readerVars, appVars, pdfVars, libVars>>)
    \/ (EpubReturn /\ UNCHANGED <<readerVars, appVars, pdfVars, libVars>>)

SpecEpub == InitEpub /\ [][NextEpub]_vars

\* one file handed to processFile, through extraction to onAddBook
InitLibrary ==
    /\ ReaderInitWith(<<>>)
    /\ AppInit
    /\ PdfInitAt("idle")
    /\ EpubInitAt("idle")
    /\ \E f \in Files : LibInitWith(f, "idle")

NextLibrary ==
    \/ (ProcessFile /\ UNCHANGED <<readerVars, appVars>>)
    \/ (PdfLoad(0..MaxFilePages) /\ UNCHANGED <<readerVars, appVars, epubVars, libVars>>)
    \/ (PdfLoadFails /\ UNCHANGED <<readerVars, appVars, epubVars, libVars>>)
    \/ (PdfPage(FilePages) /\ UNCHANGED <<readerVars, appVars, epubVars, libVars>>)
    \/ (PdfPageFails /\ UNCHANGED <<readerVars, appVars, epubVars, libVars>>)
    \/ (PdfReturn /\ UNCHANGED <<readerVars, appVars, epubVars, libVars>>)
    \/ (EpubOpen(FileArchives) /\ UNCHANGED <<readerVars, appVars, pdfVars, libVars>>)
    \/ (EpubOpenFails /\ UNCHANGED <<readerVars, appVars, pdfVars, libVars>>)
    \/ (EpubItem /\ UNCHANGED <<readerVars, appVars, pdfVars, libVars>>)
    \/ (EpubItemFails /\ UNCHANGED <<readerVars, appVars, pdfVars, libVars>>)
    \/ (EpubReturn /\ UNCHANGED <<readerVars, appVars, pdfVars, libVars>>)
    \/ (PdfSettles /\ UNCHANGED <<readerVars, appVars, pdfVars, epubVars>>)
    \/ (EpubSettles /\ UNCHANGED <<readerVars, appVars, pdfVars, epubVars>>)
    \/ (MobiSettles(FileBytes) /\ UNCHANGED <<readerVars, appVars, pdfVars, epubVars>>)
    \/ (TextSettles(FileBytes) /\ UNCHANGED <<readerVars, appVars, pdfVars, epubVars>>)
    \/ (ReadFails /\ UNCHANGED <<readerVars, appVars, pdfVars, epubVars>>)
    \/ (Metadata /\ UNCHANGED <<readerVars, appVars, pdfVars, epubVars>>)
    \/ (Cover /\ UNCHANGED <<readerVars, appVars, pdfVars, epubVars>>)

SpecLibrary == InitLibrary /\ [][NextLibrary]_vars

-----------------------------------------------------------------------------
(* App: the handlers *)

MaxBooks == 2

BookIds == 1..MaxBooks

\* the variables of the Reader besides currentPage and asked
readerRest == <<content, rpc, lines, i, currentChunk, currentLength, pageIndex,
                newPages, tempToc, tocSrc, pages, toc, hist, memo,
                bookProgress>>

\* the variables of one call of processFile, followed step by step
libCall == <<file, lpc, text, format, calls, docText, buffer, gbSupported>>

\* the variables of the Library besides books
libRest == <<libCall, isUploading, alert>>

\* prev.filter(b => b.id !== id)
WithoutBook(bs, id) == SelectSeq(bs, LAMBDA b : b.id # id)

\* a map that would give the progress to every book
WithProgressAll(bs, bookId, progress) ==
    [k \in 1..Len(bs) |-> [bs[k] EXCEPT !.progress = progress]]

\* prev.map(b => b.id === bookId ? { ...b, progress } : b)
WithProgress(bs, bookId, progress) ==
    [k \in 1..Len(bs) |->
        IF bs[k].id = bookId THEN [bs[k] EXCEPT !.progress = progress]
        ELSE bs[k]]

\* activeBook?.id === id
IsActive(id) == activeBook # NoBook /\ activeBook.id = id

\* the call of a handler, as op keeps it
Call(name, id, progress) ==
    [name |-> name, id |-> id, progress |-> progress, before |-> books,
     active |-> activeBook]

handleAddBook(book) ==
    /\ op' = Call("add", book.id, Zero)
    /\ books' = Append(books, book)
    /\ UNCHANGED <<view, activeBook>>

handleDeleteBook(id) ==
    /\ op' = Call("delete", id, Zero)
    /\ books' = WithoutBook(books, id)
    /\ IF IsActive(id)
       THEN /\ activeBook' = NoBook
            /\ view' = "library"
       ELSE UNCHANGED <<view, activeBook>>

handleOpenBook(book) ==
    /\ op' = Call("open", book.id, Zero)
    /\ activeBook' = book
    /\ view' = "reader"
    /\ UNCHANGED books

handleUpdateProgress(bookId, progress) ==
    /\ op' = Call("update", bookId, progress)
    /\ books' = WithProgress(books, bookId, progress)
    /\ activeBook' = IF IsActive(bookId)
                     THEN [activeBook EXCEPT !.progress = progress]
                     ELSE activeBook
    /\ UNCHANGED view

handleGoToConverter(book) ==
    /\ op' = Call("convert", book.id, Zero)
    /\ activeBook' = book
    /\ view' = "converter"
    /\ UNCHANGED books

handleCloseView ==
    /\ op' = Call("close", 0, Zero)
    /\ activeBook' = NoBook
    /\ view' = "library"
    /\ UNCHANGED books

-----------------------------------------------------------------------------
(* Reader: page changes and the way back *)

NaN == [nan |-> TRUE, value |-> 0]

DigitValue(c) ==
    CASE c = "0" -> 0 [] c = "1" -> 1 [] c = "2" -> 2 [] c = "3" -> 3
      [] c = "4" -> 4 [] c = "5" -> 5 [] c = "6" -> 6 [] c = "7" -> 7
      [] c = "8" -> 8 [] c = "9" -> 9

RECURSIVE SkipSpaces(_)
SkipSpaces(s) ==
    IF s # <<>> /\ IsSpace(Head(s)) THEN SkipSpaces(Tail(s)) ELSE s

\* the value of the digits at the head of s, after the value so far
RECURSIVE DigitsValue(_, _)
DigitsValue(s, sofar) ==
    IF s # <<>> /\ Head(s) \in Digits
    THEN DigitsValue(Tail(s), 10 * sofar + DigitValue(Head(s)))
    ELSE sofar

\* parseInt: white space, a sign, then the digits up to the first other
\* character; NaN when no digit stands there
ParseInt(s) ==
    LET t == SkipSpaces(s)
        signed == t # <<>> /\ Head(t) \in {"-", "+"}
        u == IF signed THEN Tail(t) ELSE t
    IN IF u = <<>> \/ Head(u) \notin Digits THEN NaN
       ELSE [nan |-> FALSE,
             value |-> IF signed /\ Head(t) = "-" THEN 0 - DigitsValue(u, 0)
                       ELSE DigitsValue(u, 0)]

\* a range that would begin at page 0
InRangeFromZero(newPage, count) == newPage >= 0 /\ newPage <= count

\* newPage >= 1 && newPage <= pages.length
InRange(newPage, count) == newPage >= 1 /\ newPage <= count

\* handlePageChange(newPage), asked for by kind
handlePageChange(kind, newPage) ==
    /\ asked' = [kind |-> kind, nan |-> FALSE, page |-> newPage,
                 from |-> currentPage]
    /\ currentPage' = IF InRange(newPage, Len(pages)) THEN newPage
                      ELSE currentPage

\* the Reader is on the screen and its pages are made
Reading == view = "reader" /\ rpc = "done"

\* the previous-page button, disabled on the first page
PreviousPage ==
    /\ Reading
    /\ ~(currentPage <= 1)
    /\ handlePageChange("previous", currentPage - 1)
    /\ UNCHANGED <<readerRest, appVars, pdfVars, epubVars, libVars>>

\* the next-page button, disabled on the last page
NextPage ==
    /\ Reading
    /\ ~(currentPage >= Len(pages))
    /\ handlePageChange("next", currentPage + 1)
    /\ UNCHANGED <<readerRest, appVars, pdfVars, epubVars, libVars>>

\* handleJumpSubmit with jumpInput one of inputs
handleJumpSubmit(inputs) ==
    /\ Reading
    /\ \E jumpInput \in inputs :
        LET p == ParseInt(jumpInput)
        IN IF ~p.nan
           THEN handlePageChange("jump", p.value)
           ELSE /\ asked' = [kind |-> "jump", nan |-> TRUE, page |-> 0,
                             from |-> currentPage]
                /\ UNCHANGED currentPage
    /\ UNCHANGED <<readerRest, appVars, pdfVars, epubVars, libVars>>

\* a click on an entry of the table of contents
TocClick ==
    /\ Reading
    /\ \E k \in 1..Len(toc) : handlePageChange("toc", toc[k].pageIndex + 1)
    /\ UNCHANGED <<readerRest, appVars, pdfVars, epubVars, libVars>>

\* the Reader leaves the screen: its state is gone
ReaderUnmount ==
    /\ content' = <<>>
    /\ rpc' = "off"
    /\ lines' = <<>>
    /\ i' = 0
    /\ currentChunk' = <<>>
    /\ currentLength' = 0
    /\ pageIndex' = 0
    /\ newPages' = <<>>
    /\ tempToc' = <<>>
    /\ tocSrc' = <<>>
    /\ pages' = <<>>
    /\ toc' = <<>>
    /\ hist' = <<>>
    /\ memo' = [set |-> FALSE, text |-> <<>>, pages |-> <<>>, toc |-> <<>>]
    /\ currentPage' = 1
    /\ bookProgress' = Zero
    /\ asked' = NotAsked

\* the Reader is mounted on book: its state as constructed, the effect due
ReaderMount(book) ==
    /\ content' = book.content
    /\ rpc' = "idle"
    /\ bookProgress' = book.progress
    /\ currentPage' = 1
    /\ asked' = NotAsked
    /\ UNCHANGED <<lines, i, currentChunk, currentLength, pageIndex, newPages,
                   tempToc, tocSrc, pages, toc, hist, memo>>

\* handleBack: the progress goes to the App, then the view is closed
handleBack ==
    /\ Reading
    /\ LET finalProgress == FinalProgress(currentPage, Len(pages))
       IN /\ books' = WithProgress(books, activeBook.id, finalProgress)
          /\ activeBook' = NoBook
          /\ view' = "library"
    /\ op' = Call("close", 0, Zero)
    /\ closedOn' = [page |-> currentPage, count |-> Len(pages)]
    /\ ReaderUnmount
    /\ UNCHANGED <<uploads, libRest, pdfVars, epubVars>>

\* a book of the Library is opened
OpenFromLibrary ==
    /\ view = "library"
    /\ \E k \in 1..Len(books) :
        /\ handleOpenBook(books[k])
        /\ ReaderMount(books[k])
    /\ UNCHANGED <<closedOn, uploads, libRest, pdfVars, epubVars>>

MaxBookPages == 6

\* a line of 1201 characters: it closes a page whatever stands before it
PageLine == <<"X961", "X240">>

RECURSIVE PageLines(_)
PageLines(n) ==
    IF n = 1 THEN PageLine ELSE PageLines(n - 1) \o <<NL>> \o PageLine

\* the texts of the books: no text, a heading pulled forward past the last
\* page, and a heading followed by one to MaxBookPages pages
BookTexts ==
    {<<>>, <<"X961", NL, "#", " ", "x">>}
        \cup {<<"#", " ", "x", NL>> \o PageLines(n) : n \in 1..MaxBookPages}

\* what is typed into the page field
JumpInputs ==
    {<<>>, <<"0">>, <<"2">>, <<"7">>, <<"-", "2">>, <<" ", "2">>, <<"x">>,
     <<"2", "x">>, <<"x", "2">>, <<"2", "0">>}

MaxShelf == 1

\* processFile ends well while the Library is shown: onAddBook(newBook)
AddFromLibrary ==
    /\ view = "library"
    /\ Len(books) < MaxShelf
    /\ \E t \in BookTexts :
        handleAddBook([id |-> Len(books) + 1, content |-> t,
                       format |-> "txt", progress |-> Zero])
    /\ UNCHANGED <<closedOn, uploads, readerVars, libRest, pdfVars, epubVars>>

\* the App as constructed: no book, the Library on the screen, no Reader
InitReading ==
    /\ ReaderInitAt(<<>>, Zero, "off")
    /\ AppInit
    /\ PdfInitAt("idle")
    /\ EpubInitAt("idle")
    /\ LibInitWith(NoFile, "off")

NextReading ==
    \/ AddFromLibrary
    \/ OpenFromLibrary
    \/ StartRun
    \/ LineStep
    \/ FinishRun
    \/ PreviousPage
    \/ NextPage
    \/ handleJumpSubmit(JumpInputs)
    \/ TocClick
    \/ handleBack

SpecReading == InitReading /\ [][NextReading]_vars

-----------------------------------------------------------------------------
(* Library: uploads from the file picker and from drag-and-drop *)

MaxUploads == 3

\* what the extractor of an upload hands back: a text, or nothing (it threw)
UploadTexts == {<<"x">>, <<" ">>}

\* the positions of a call that has not come to its end
Pending == {"extract", "metadata", "cover"}

\* the calls of processFile that are in flight
InFlight == {k \in 1..Len(uploads) : uploads[k].pc \in Pending}

\* processFile(f), called through via: the size check, setIsUploading(true)
processFile(via, f) ==
    IF TooLarge(f)
    THEN /\ alert' = [kind |-> "too-large", detail |-> ""]
         /\ uploads' = Append(uploads, [via |-> via, pc |-> "refused",
                                        text |-> <<>>])
         /\ UNCHANGED isUploading
    ELSE /\ isUploading' = TRUE
         /\ uploads' = Append(uploads, [via |-> via, pc |-> "extract",
                                        text |-> <<>>])
         /\ UNCHANGED alert

\* the catch block and the finally of call k
UploadFails(k, why) ==
    /\ alert' = [kind |-> "upload-failed", detail |-> why]
    /\ isUploading' = FALSE
    /\ uploads' = [uploads EXCEPT ![k].pc = "failed"]

\* handleFileUpload: a file is chosen in the picker, which the import button
\* opens; the button is disabled while isUploading
handleFileUpload ==
    /\ view = "library"
    /\ ~isUploading
    /\ Len(uploads) < MaxUploads
    /\ \E f \in Files : processFile("picker", f)
    /\ UNCHANGED <<view, activeBook, closedOn, op, books, libCall, readerVars,
                   pdfVars, epubVars>>

\* handleDrop: a file is dropped on the Library
handleDrop ==
    /\ view = "library"
    /\ Len(uploads) < MaxUploads
    /\ \E f \in Files : processFile("drop", f)
    /\ UNCHANGED <<view, activeBook, closedOn, op, books, libCall, readerVars,
                   pdfVars, epubVars>>

\* the extractor of a call settles: a text, a blank text, or a throw
ExtractSettles ==
    /\ \E k \in 1..Len(uploads) :
        /\ uploads[k].pc = "extract"
        /\ \/ \E t \in UploadTexts :
                IF IsBlank(t) THEN UploadFails(k, "empty")
                ELSE /\ uploads' = [uploads EXCEPT ![k].pc = "metadata",
                                                   ![k].text = t]
                     /\ UNCHANGED <<alert, isUploading>>
           \/ UploadFails(k, "failed")
    /\ UNCHANGED <<view, activeBook, closedOn, op, books, libCall, readerVars,
                   pdfVars, epubVars>>

\* await generateBookMetadata(...) of a call settles; metadata.title throws
\* when the answer carries no title
MetadataSettles ==
    /\ \E k \in 1..Len(uploads) :
        /\ uploads[k].pc = "metadata"
        /\ \E hasTitle \in BOOLEAN :
            IF hasTitle
            THEN /\ uploads' = [uploads EXCEPT ![k].pc = "cover"]
                 /\ UNCHANGED <<alert, isUploading>>
            ELSE UploadFails(k, "TypeError")
    /\ UNCHANGED <<view, activeBook, closedOn, op, books, libCall, readerVars,
                   pdfVars, epubVars>>

\* await generateCoverImage(...) of a call settles either way; onAddBook;
\* the finally
CoverSettles ==
    /\ \E k \in 1..Len(uploads) :
        /\ uploads[k].pc = "cover"
        /\ handleAddBook([id |-> k, content |-> uploads[k].text,
                          format |-> "txt", progress |-> Zero])
        /\ isUploading' = FALSE
        /\ uploads' = [uploads EXCEPT ![k].pc = "added"]
    /\ UNCHANGED <<closedOn, alert, libCall, readerVars, pdfVars, epubVars>>

InitUploads ==
    /\ ReaderInitAt(<<>>, Zero, "off")
    /\ AppInit
    /\ PdfInitAt("idle")
    /\ EpubInitAt("idle")
    /\ LibInitWith(NoFile, "off")

NextUploads ==
    \/ handleFileUpload
    \/ handleDrop
    \/ ExtractSettles
    \/ MetadataSettles
    \/ CoverSettles

SpecUploads == InitUploads /\ [][NextUploads]_vars

\* the books that call k added
AddedBy(k) == {j \in 1..Len(books) : books[j].id = k}

\* C29: however uploads from the file picker and from drag-and-drop
\* interleave, isUploading is true whenever a call of processFile is in
\* flight, at most one call is in flight, and a call adds one book, once its
\* extraction, metadata and cover steps are over, and none before
C29_OneUploadInFlight ==
    /\ InFlight # {} => isUploading
    /\ Cardinality(InFlight) <= 1
    /\ \A k \in 1..Len(uploads) :
          Cardinality(AddedBy(k)) = (IF uploads[k].pc = "added" THEN 1 ELSE 0)

\* C29: a file is dropped while an upload from the picker is in flight; the
\* first call ends and clears isUploading while the second is in flight
C29_InFlightUnflagged ==
    /\ Len(uploads) = 2
    /\ uploads[1].via = "picker"
    /\ uploads[1].pc = "added"
    /\ uploads[2].via = "drop"
    /\ uploads[2].pc \in Pending
    /\ ~isUploading

-----------------------------------------------------------------------------
(* Reader: the current page *)

\* C27: once the pages are made, and after every previous-page, next-page,
\* jump and TOC click, 1 <= currentPage <= pages.length; a page change asked
\* for outside that range (a TOC entry whose pageIndex + 1 is no page, a jump
\* input that is no number) leaves currentPage as it was, one inside it
\* becomes the current page
C27_CurrentPageInRange ==
    Reading =>
        /\ 1 <= currentPage
        /\ currentPage <= Len(pages)
        /\ asked.kind # "none" =>
              IF ~asked.nan /\ asked.page >= 1 /\ asked.page <= Len(pages)
              THEN currentPage = asked.page
              ELSE currentPage = asked.from

\* a click on a TOC entry that points past the last page, on page 1 of 1
C27_Witness ==
    /\ Reading
    /\ Len(pages) = 1
    /\ Len(toc) = 1
    /\ toc[1].pageIndex = 1
    /\ asked = [kind |-> "toc", nan |-> FALSE, page |-> 2, from |-> 1]
    /\ currentPage = 1

-----------------------------------------------------------------------------
(* Pagination: claims C1 to C4 *)

\* the first line of a page
FirstLine(p) == Head(Split(p))

C2_TocIndexInRange ==
    rpc = "done" =>
        \A k \in 1..Len(toc) :
            toc[k].pageIndex >= 0 /\ toc[k].pageIndex < Len(pages)

\* C3: paginating the same text again, whatever was paginated in between,
\* gives the pages and the TOC of its first pagination.
C3_SameTextSamePagesAndToc ==
    (rpc = "done" /\ memo.set /\ content = memo.text) =>
        (pages = memo.pages /\ toc = memo.toc)

\* a text with a heading paginated, then another text, then the first again
C3_Witness ==
    /\ rpc = "done"
    /\ Len(hist) = 3
    /\ hist[3] = hist[1]
    /\ hist[2] # hist[1]
    /\ Len(toc) >= 1

\* C4: a heading whose TOC entry was pulled forward to the next page index is
\* the first line of the page that entry references.
C4_PulledHeadingTopsItsPage ==
    rpc = "done" =>
        \A k \in 1..Len(toc) :
            tocSrc[k].pulled =>
                /\ toc[k].pageIndex + 1 <= Len(pages)
                /\ FirstLine(pages[toc[k].pageIndex + 1]) = lines[tocSrc[k].line]

-----------------------------------------------------------------------------
(* PDF layout: claim C9 *)

\* the items of the page read last that the loop does not skip
Kept == SelectSeq(items, LAMBDA it : ~IsSkipped(it))

\* pageText is the two kept items' strings with sep between them
JoinedBy(sep) == pageText = Kept[1].str \o sep \o Kept[2].str

\* C9: for two consecutive non-blank runs on a page with yDiff = lastY -
\* currentY, yDiff > 24 puts exactly two newlines before the second run,
\* 8 < yDiff <= 24 exactly one newline, and yDiff < -8 exactly one space.
C9_BreaksByBaselineDrop ==
    (pdfPc \in {"page", "done"} /\ Len(Kept) = 2) =>
        LET yDiff == CurrentY(Kept[1]) - CurrentY(Kept[2])
        IN /\ yDiff > 24 => JoinedBy(<<NL, NL>>)
           /\ (yDiff > 8 /\ yDiff <= 24) => JoinedBy(<<NL>>)
           /\ yDiff < -8 => JoinedBy(<<" ">>)

-----------------------------------------------------------------------------
(* EPUB spine order: claim C10 *)

\* e is s with some elements left out, the order kept
RECURSIVE IsSubsequence(_, _)
IsSubsequence(e, s) ==
    IF e = <<>> THEN TRUE
    ELSE IF s = <<>> THEN FALSE
    ELSE IF Head(e) = Head(s) THEN IsSubsequence(Tail(e), Tail(s))
    ELSE IsSubsequence(e, Tail(s))

\* the manifest items with the given id
ItemsWithId(idref) ==
    SelectSeq(zip.manifest, LAMBDA it : it.id = idref)

\* the text of the first manifest item with the given id, markup removed;
\* empty when the id names no item or the item names no entry
ChapterText(idref) ==
    LET its == ItemsWithId(idref)
        key == DecodeURIComponent(opfDir \o its[1].href)
    IN IF its = <<>> THEN <<>>
       ELSE IF ~key.ok \/ key.str \notin DOMAIN zip.files THEN <<>>
       ELSE StripHtml(zip.files[key.str])

\* the chapters emitted, each followed by two newlines, in the order emitted
RECURSIVE EmittedText(_)
EmittedText(ids) ==
    IF ids = <<>> THEN <<>>
    ELSE ChapterText(Head(ids)) \o <<NL, NL>> \o EmittedText(Tail(ids))

\* C10: the chapters are emitted in spine order, whatever the order of the
\* manifest, and each emitted chapter is followed by two newlines.
C10_EmittedInSpineOrder ==
    epubPc \in {"spine", "done"} =>
        /\ IsSubsequence(emitted, SubSeq(zip.spine, 1, epubK - 1))
        /\ epubText = EmittedText(emitted)

\* two chapters emitted from a spine that runs against the manifest's order
C10_Witness ==
    /\ epubPc = "done"
    /\ zip.spine = <<"b", "a">>
    /\ zip.manifest = <<[id |-> "a", href |-> <<"a">>],
                        [id |-> "b", href |-> <<"%", "6", "2">>]>>
    /\ emitted = <<"b", "a">>
    /\ epubResult.ok
    /\ epubResult.text = <<"B", "b", NL, NL, "A", NL, NL>>

-----------------------------------------------------------------------------
(* Ingestion: processFile *)

\* processFile has got past the await of its extractor
PastExtraction == calls # <<>> /\ lpc \in {"metadata", "cover", "done"}

\* C5: whatever the format, a document whose extracted text is empty or only
\* white space ends in the upload-failed alert and adds no book
C5_BlankDocumentIsRejected ==
    (PastExtraction /\ IsBlank(docText)) =>
        /\ lpc = "done"
        /\ books = <<>>
        /\ alert.kind = "upload-failed"

\* C6: once the extractor has failed, on the first step or on a late page or
\* spine item, it hands back no text, processFile keeps none, no book is
\* added, and processFile ends in the upload-failed alert
C6_FailureLeavesNothing ==
    /\ pdfPc = "failed" => (~pdfResult.ok /\ pdfResult.text = <<>>)
    /\ epubPc = "failed" => (~epubResult.ok /\ epubResult.text = <<>>)
    /\ (pdfPc = "failed" \/ epubPc = "failed") =>
          /\ text = <<>>
          /\ books = <<>>
          /\ lpc \in {"extract", "done"}
          /\ lpc = "done" => (alert.kind = "upload-failed" /\ ~isUploading)
    /\ (lpc = "done" /\ alert.detail \in {"mobi", "text"}) =>
          (text = <<>> /\ books = <<>>)

\* a PDF whose second page cannot be read, after the first page gave text
C6_Witness ==
    /\ lpc = "done"
    /\ pdfPc = "failed"
    /\ pdfI = 2
    /\ ~IsBlank(pdfBody)
    /\ alert.kind = "upload-failed"

\* C7: a file of more than 50 MiB never sets isUploading, reaches no
\* extractor and no decoder and adds no book; a file of exactly 50 MiB passes
\* the size check
C7_SizeLimit ==
    /\ file.size > 50 * 1024 * 1024 =>
          /\ calls = <<>>
          /\ ~isUploading
          /\ books = <<>>
          /\ pdfPc = "idle" /\ epubPc = "idle"
          /\ lpc \in {"idle", "done"}
          /\ lpc = "done" => alert.kind = "too-large"
    /\ (file.size = 50 * 1024 * 1024 /\ lpc # "idle") =>
          (calls # <<>> /\ alert.kind # "too-large")

\* a file one byte over the limit has been turned away
C7_Witness ==
    /\ file.size = 50 * 1024 * 1024 + 1
    /\ lpc = "done"
    /\ alert.kind = "too-large"

\* the names of FileNames that end in .pdf, .epub, .mobi and .md when the
\* case of the letters is put aside
PdfNames ==
    {<<"a", ".", "p", "d", "f">>, <<"A", ".", "P", "D", "F">>,
     <<"a", ".", "e", "p", "u", "b", ".", "p", "d", "f">>}

EpubNames == {<<"b", ".", "e", "p", "u", "b">>, <<"b", ".", "E", "p", "u", "B">>}

MobiNames == {<<"m", ".", "m", "o", "b", "i">>, <<"m", ".", "M", "O", "B", "I">>}

MdNames == {<<"n", ".", "m", "d">>, <<"n", ".", "M", "D">>}

ExpectedCall ==
    IF file.type = "application/pdf" \/ file.name \in PdfNames THEN "pdf"
    ELSE IF file.name \in EpubNames THEN "epub"
    ELSE IF file.name \in MobiNames THEN "mobi"
    ELSE "text"

\* C8: a file that passed the size check reaches exactly one of the three
\* extractors and readTextFile: the PDF extractor for type application/pdf
\* whatever the name, otherwise the one its suffix names in any case of
\* letters, otherwise readTextFile, which gives format md to .md names and
\* txt to all others and turns no name away
C8_DispatchByTypeThenSuffix ==
    (lpc # "idle" /\ file.size <= 50 * 1024 * 1024) =>
        /\ calls = <<ExpectedCall>>
        /\ (ExpectedCall = "text" /\ PastExtraction /\ alert.detail # "text") =>
              /\ format = (IF file.name \in MdNames THEN "md" ELSE "txt")
              /\ alert.kind = "upload-failed" =>
                    alert.detail \in {"empty", "TypeError"}
        /\ (ExpectedCall # "text" /\ PastExtraction /\ text # <<>>) =>
              format = ExpectedCall

\* an upper-case .PDF name of type text/plain went to the PDF extractor and
\* became a book
C8_Witness ==
    /\ file.name = <<"A", ".", "P", "D", "F">>
    /\ file.type = "text/plain"
    /\ calls = <<"pdf">>
    /\ lpc = "done"
    /\ Len(books) = 1

-----------------------------------------------------------------------------
(* EPUB spine items that cannot be read *)

\* the archive has its container, its OPF, a manifest and a spine
PackageComplete ==
    /\ zip.hasContainer /\ zip.opfPath # <<>> /\ zip.hasOpf
    /\ zip.hasManifest /\ zip.hasSpine

\* the content of the entry the first manifest item with this id points to;
\* empty when there is no such item, no href, no decodable path or no entry
EntryOf(idref) ==
    LET its == ItemsWithId(idref)
        key == DecodeURIComponent(OpfDirOf(zip.opfPath) \o its[1].href)
    IN IF idref = "" \/ its = <<>> THEN <<>>
       ELSE IF its[1].href = <<>> THEN <<>>
       ELSE IF ~key.ok \/ key.str \notin DOMAIN zip.files THEN <<>>
       ELSE zip.files[key.str]

\* the text of the spine items that resolve to an entry, in the given order
RECURSIVE ResolvableText(_)
ResolvableText(ids) ==
    IF ids = <<>> THEN <<>>
    ELSE (IF EntryOf(Head(ids)) = <<>> THEN <<>>
          ELSE StripHtml(EntryOf(Head(ids))) \o <<NL, NL>>)
         \o ResolvableText(Tail(ids))

\* the archive could be read: no read of the zip or of an entry was rejected
ReadsSucceeded == epubResult.detail \notin {"Corrupted zip", "Corrupted zip entry"}

\* C11: in a complete package whose reads succeed, spine items without a
\* manifest item, without a resolvable or decodable href or without an entry
\* are passed over: when the remaining items give non-blank text, extraction
\* succeeds with exactly their text in spine order
C11_UnreadableItemsArePassedOver ==
    (/\ epubPc \in {"done", "failed"}
     /\ PackageComplete
     /\ ReadsSucceeded
     /\ ~IsBlank(ResolvableText(zip.spine))) =>
        /\ epubResult.ok
        /\ epubResult.text = ResolvableText(zip.spine)

-----------------------------------------------------------------------------
(* Anomalies of a successful extraction *)

\* C12: when the EPUB extractor succeeds after passing over spine items, what
\* it hands back carries a sequence of warnings with one entry for each item
\* passed over
C12_AnomaliesAreRecorded ==
    (epubPc = "done" /\ Len(emitted) < Len(zip.spine)) =>
        /\ "warnings" \in DOMAIN epubResult
        /\ Len(epubResult.warnings) = Len(zip.spine) - Len(emitted)

-----------------------------------------------------------------------------
(* Encoding resolution: readTextFile *)

\* readTextFile has returned a text for the bytes in buffer
TextWasRead == calls = <<"text">> /\ PastExtraction /\ alert.detail # "text"

\* the number of U+FFFD in the UTF-8 decoding of the bytes bs
Utf8Replacements(bs) ==
    Cardinality({k \in 1..Len(Utf8Decode(bs)) : Utf8Decode(bs)[k] = "uFFFD"})

\* C13: readTextFile returns the GB18030 decoding exactly when the UTF-8
\* decoding holds at least one U+FFFD, their number is more than 1% of its
\* length, and the GB18030 decoder is there; otherwise, at exactly 1% and
\* below, it returns the UTF-8 decoding
C13_Gb18030OnlyAboveOnePercent ==
    TextWasRead =>
        docText =
            IF /\ Utf8Replacements(buffer) >= 1
               /\ 100 * Utf8Replacements(buffer) > StrLen(Utf8Decode(buffer))
               /\ gbSupported
            THEN Gb18030Decode(buffer)
            ELSE Utf8Decode(buffer)

\* two GBK bytes and 99 letters: 2 of 101 characters are U+FFFD as UTF-8,
\* and the text is read as GB18030
C13_Witness ==
    /\ TextWasRead
    /\ buffer = <<"xD6", "xD0", "A99">>
    /\ gbSupported
    /\ docText = <<"u4E2D", "A99">>
    /\ Len(books) = 1

-----------------------------------------------------------------------------
(* extractTextFromMobi: the notice and the fallback *)

\* extractTextFromMobi has returned a text for the bytes in buffer
MobiReturned ==
    /\ calls = <<"mobi">>
    /\ PastExtraction
    /\ alert.detail # "mobi"

\* C14: every text extractTextFromMobi returns, from the readable runs or
\* from the printable-ASCII fallback, begins with the advisory notice
C14_MobiTextBeginsWithNotice ==
    MobiReturned => IsPrefix(MobiNotice, text)

\* the characters of s that are printable ASCII, tab, newline or return
AsciiOnly(s) ==
    SelectSeq(s, LAMBDA c : ByteValue(c) \in (32..126) \cup {9, 10, 13}
                            /\ c \notin {"uFFFD", "u4E2D", "uOTHER"})

\* no run of 10 or more readable characters is in the decoded bytes
NoReadableRun(bs) == ReadableRuns(Utf8Decode(bs), 1, <<>>) = <<>>

\* C15: without a readable run of 10 characters, extractTextFromMobi fails
\* exactly when the bytes stripped to printable ASCII and white space are
\* fewer than 100 characters, and otherwise hands back the stripped text
C15_FallbackFailsBelow100 ==
    (calls = <<"mobi">> /\ PastExtraction /\ buffer # <<>>
        /\ NoReadableRun(buffer)) =>
        IF StrLen(AsciiOnly(Utf8Decode(buffer))) < 100
        THEN alert.detail = "mobi" /\ books = <<>>
        ELSE alert.detail # "mobi" /\ docText = AsciiOnly(Utf8Decode(buffer))

-----------------------------------------------------------------------------
(* The PDF page cap *)

\* the marker of page n (n < 100), written out digit by digit
MarkerOfPage(n) ==
    LET d == <<"0", "1", "2", "3", "4", "5", "6", "7", "8", "9">>
    IN <<"\n", "\n", "-", "-", "-", " ", "u7B2C", " ">>
           \o (IF n < 10 THEN <<d[n + 1]>>
               ELSE <<d[(n \div 10) + 1], d[(n % 10) + 1]>>)
           \o <<" ", "u9875", " ", "-", "-", "-", "\n", "\n">>

\* pages from..to of a document whose pages all read "a", each after its marker
RECURSIVE MarkedPages(_, _)
MarkedPages(from, to) ==
    IF from > to THEN <<>>
    ELSE MarkerOfPage(from) \o <<"a">> \o MarkedPages(from + 1, to)

\* C16: the text returned is pages 1 to min(totalPages, 50) in ascending
\* order, each after its marker, followed by the truncation notice exactly
\* when the document has more than 50 pages; no page beyond the 50th is read
C16_FirstFiftyPagesThenNotice ==
    /\ pdfPc \in {"page", "done"} =>
          (pdfI - 1 <= 50 /\ pdfI - 1 <= totalPages)
    /\ pdfPc = "done" =>
          /\ pdfI - 1 = (IF totalPages < 50 THEN totalPages ELSE 50)
          /\ pdfResult.ok
          /\ pdfResult.text =
                MarkedPages(1, IF totalPages < 50 THEN totalPages ELSE 50)
                    \o (IF totalPages > 50 THEN TruncationNotice ELSE <<>>)
          /\ IF totalPages > 50
             THEN pdfResult.text # MarkedPages(1, 50)
             ELSE pdfResult.text = MarkedPages(1, totalPages)

\* a document of 51 pages has been read: 50 pages and the notice
C16_Witness ==
    /\ pdfPc = "done"
    /\ totalPages = 51
    /\ pdfI = 51
    /\ pdfResult.text = MarkedPages(1, 50) \o TruncationNotice

-----------------------------------------------------------------------------
(* Pagination is total *)

\* every character of s is white space
AllSpace(s) == \A k \in 1..Len(s) : s[k] \in {" ", "\n", "\t", "\r", "S10"}

\* C17: processContent ends for every text with at least one page; a text
\* that is empty, or is white space too short to fill a page, gives exactly
\* the placeholder page, and any other text gives pages of its own
C17_AlwaysAtLeastOnePage ==
    /\ rpc = "loop" => (Len(lines) >= 1 /\ i <= Len(lines) + 1)
    /\ rpc = "done" =>
          /\ Len(pages) >= 1
          /\ content = <<>> => pages = <<Placeholder>>
          /\ (AllSpace(content) /\ StrLen(content) <= 1200) =>
                pages = <<Placeholder>>
          /\ ~AllSpace(content) =>
                \A k \in 1..Len(pages) : pages[k] # Placeholder

\* white space only: no page is flushed and the placeholder is the one page
C17_Witness ==
    /\ rpc = "done"
    /\ content = <<" ", "\n", " ">>
    /\ newPages = <<Placeholder>>
    /\ pages = <<Placeholder>>

-----------------------------------------------------------------------------
(* The page budget *)

\* the accumulated line length of a page: its length without its newlines
LineLengthOf(page) ==
    StrLen(page) - Cardinality({k \in 1..Len(page) : page[k] = "\n"})

\* C18: no page of the pagination has an accumulated line length above the
\* budget of 1200 characters
C18_NoPageAboveBudget ==
    rpc = "done" =>
        \A k \in 1..Len(pages) : LineLengthOf(pages[k]) <= 1200

-----------------------------------------------------------------------------
(* EPUB packages with a part missing *)

\* C19: extractTextFromEpub returns a text only for an archive that has
\* container.xml, the OPF, a manifest and a spine; with any of them missing
\* it throws, hands back no text, and has emitted nothing on the way,
\* whatever the spine and the manifest hold otherwise
C19_IncompletePackageFails ==
    /\ epubPc = "done" =>
          /\ zip.hasContainer /\ zip.hasManifest /\ zip.hasSpine
          /\ epubResult.ok
    /\ (epubPc \in {"done", "failed"} /\ zip # NoArchive
            /\ (~zip.hasContainer \/ ~zip.hasManifest \/ ~zip.hasSpine)) =>
          /\ epubPc = "failed"
          /\ ~epubResult.ok
          /\ epubResult.text = <<>>
          /\ epubResult.kind = "epub"
    /\ (epubPc = "spine" /\ ~zip.hasManifest) => epubText = <<>>

\* a package with a spine without itemrefs and no manifest has failed
C19_Witness ==
    /\ epubPc = "failed"
    /\ zip.hasContainer /\ zip.hasOpf /\ zip.hasSpine
    /\ ~zip.hasManifest
    /\ zip.spine = <<>>
    /\ epubResult.detail = "EPUB content appears empty"

-----------------------------------------------------------------------------
(* The target page of a heading *)

\* the page counter and the accumulated length before line j of ls is read
RECURSIVE BeforeLine(_, _)
BeforeLine(ls, j) ==
    IF j = 1 THEN [page |-> 0, length |-> 0]
    ELSE LET was == BeforeLine(ls, j - 1)
             now == was.length + StrLen(ls[j - 1])
         IN IF now > 1200 THEN [page |-> was.page + 1, length |-> 0]
            ELSE [page |-> was.page, length |-> now]

\* C20: the page of every TOC entry is fixed by the state in which its
\* heading line is met, the line itself not counted: the page counter plus
\* one when more than 960 characters are accumulated, the page counter
\* otherwise; it stays so while later lines are read and in the final TOC
C20_TargetPageFixedAtHeading ==
    /\ rpc \in {"loop", "done"} =>
          /\ Len(tocSrc) = Len(tempToc)
          /\ \A k \in 1..Len(tempToc) :
                LET at == BeforeLine(lines, tocSrc[k].line)
                IN tempToc[k].pageIndex =
                       (IF at.length > 960 THEN at.page + 1 ELSE at.page)
    /\ rpc = "done" => toc = tempToc

\* a heading met at exactly 960 characters stays on page 0, though the
\* lines after it close that page
C20_Witness ==
    /\ rpc = "done"
    /\ content = <<"X480", "X480", NL, "#", " ", "x", NL, "X961">>
    /\ Len(pages) = 1
    /\ Len(toc) = 1
    /\ toc[1].pageIndex = 0

-----------------------------------------------------------------------------
(* PDF runs on one line *)

\* the characters of the model inside U+3000-303F, U+4E00-9FA5, U+FF00-FFEF
CjkChars == {"u3000", "u4E2D", "uFF0C"}

\* C21: for two consecutive non-blank runs on one line (-8 <= yDiff <= 8),
\* one space stands between them exactly when neither the last character of
\* the first nor the first character of the second is CJK and the first does
\* not end in a space or newline; otherwise nothing stands between them
C21_SpaceBetweenRunsOnOneLine ==
    (pdfPc \in {"page", "done"} /\ Len(Kept) = 2) =>
        LET yDiff == CurrentY(Kept[1]) - CurrentY(Kept[2])
            lastChar == Kept[1].str[Len(Kept[1].str)]
            currChar == Kept[2].str[1]
        IN (yDiff >= -8 /\ yDiff <= 8) =>
               IF /\ lastChar \notin CjkChars
                  /\ currChar \notin CjkChars
                  /\ lastChar \notin {" ", NL}
               THEN JoinedBy(<<" ">>)
               ELSE JoinedBy(<<>>)

-----------------------------------------------------------------------------
(* PDF runs against the previous baseline *)

\* what the yDiff rule puts before the run str, after the text soFar
RuleSeparator(yDiff, soFar, str) ==
    IF yDiff > 24 THEN <<NL, NL>>
    ELSE IF yDiff > 8 THEN <<NL>>
    ELSE IF yDiff < -8 THEN <<" ">>
    ELSE IF /\ soFar[Len(soFar)] \notin CjkChars \cup {" ", NL}
            /\ str[1] \notin CjkChars
         THEN <<" ">>
         ELSE <<>>

\* the text of the non-blank runs rs: the first as it is, each later one
\* after the separator the rule gives for the baseline of the run before it
RECURSIVE RunsText(_, _)
RunsText(rs, k) ==
    IF k = 0 THEN <<>>
    ELSE IF k = 1 THEN rs[1].str
    ELSE LET soFar == RunsText(rs, k - 1)
         IN soFar \o RuleSeparator(CurrentY(rs[k - 1]) - CurrentY(rs[k]),
                                   soFar, rs[k].str)
                  \o rs[k].str

\* C22: the text of every page is made of its non-blank runs alone, the
\* first without a separator and each later one after the separator the
\* yDiff rule gives against the baseline of the non-blank run before it,
\* whatever that baseline is and whatever the page before held
C22_EveryRunAgainstPreviousBaseline ==
    (pdfPc \in {"page", "done"} /\ pdfI > 1) =>
        pageText = RunsText(Kept, Len(Kept))

-----------------------------------------------------------------------------
(* The level of a heading *)

\* s without the white space it starts with
RECURSIVE AfterIndent(_)
AfterIndent(s) ==
    IF s # <<>> /\ Head(s) \in {" ", "\t", "\r", "S10", "u3000"}
    THEN AfterIndent(Tail(s)) ELSE s

\* the number of '#' that s starts with
RECURSIVE HashCount(_)
HashCount(s) == IF s # <<>> /\ Head(s) = "#" THEN 1 + HashCount(Tail(s)) ELSE 0

\* C23: the level of a TOC entry is the number of '#' its heading line
\* starts with, white space before them put aside, and 1 for a heading that
\* is not written with '#'; it is always between 1 and 6
C23_LevelCountsHashes ==
    rpc \in {"loop", "done"} =>
        \A k \in 1..Len(tempToc) :
            LET line == lines[tocSrc[k].line]
                n == HashCount(AfterIndent(line))
            IN /\ tempToc[k].level = (IF n >= 1 THEN n ELSE 1)
               /\ tempToc[k].level >= 1
               /\ tempToc[k].level <= 6

-----------------------------------------------------------------------------
(* When a page is flushed *)

\* the position of the last newline of page before position k (0: none)
RECURSIVE NewlineBefore(_, _)
NewlineBefore(page, k) ==
    IF k <= 1 THEN 0
    ELSE IF page[k - 1] = "\n" THEN k - 1
    ELSE NewlineBefore(page, k - 1)

\* the page without its last line (each line ends in a newline)
WithoutFinalLine(page) == SubSeq(page, 1, NewlineBefore(page, Len(page)))

\* the page was closed by the line that took it over the budget
ClosedOverBudget(page) ==
    /\ LineLengthOf(page) > 1200
    /\ LineLengthOf(WithoutFinalLine(page)) <= 1200

\* the lines ls, each followed by a newline
RECURSIVE Terminated(_)
Terminated(ls) ==
    IF ls = <<>> THEN <<>> ELSE Head(ls) \o <<"\n">> \o Terminated(Tail(ls))

\* C24: while the lines are read, every page flushed so far was closed by
\* the line that took it over 1200, the page index is the number of pages
\* flushed, and the accumulator holds the lines since the last flush, at most
\* 1200 characters of them; in the result every page but the last is such a
\* closed page
C24_FlushWhenBudgetExceeded ==
    /\ rpc = "loop" =>
          /\ pageIndex = Len(newPages)
          /\ \A k \in 1..Len(newPages) : ClosedOverBudget(newPages[k])
          /\ currentLength = LineLengthOf(currentChunk)
          /\ currentLength <= 1200
          /\ Concat(newPages) \o currentChunk
                 = Terminated(SubSeq(lines, 1, i - 1))
    /\ rpc = "done" =>
          \A k \in 1..(Len(pages) - 1) : ClosedOverBudget(pages[k])

\* two lines of 961 and 240 characters close the first page at 1201; the
\* third line makes the last page
C24_Witness ==
    /\ rpc = "done"
    /\ content = <<"X961", NL, "X240", NL, "x">>
    /\ pageIndex = 1
    /\ pages = <<<<"X961", NL, "X240", NL>>, <<"x", NL>>>>

-----------------------------------------------------------------------------
(* C25: every error raised during PDF extraction is mapped to exactly one of
   three outcomes: password-protected when it is a password error, invalid
   container when it is an invalid-PDF error, and otherwise a generic failure
   carrying the underlying message; an invalid-PDF error is always reported
   as invalid container. *)
C25_ErrorsClassified ==
    pdfPc = "failed" =>
        /\ pdfResult.ok = FALSE
        /\ pdfResult.kind \in {"encrypted", "invalid", "failed"}
        /\ caught.name = InvalidPDFExceptionName => pdfResult.kind = "invalid"
        /\ caught.name = PasswordExceptionName => pdfResult.kind = "encrypted"
        /\ pdfResult.kind = "failed" => pdfResult.detail = caught.message

\* C25: an invalid-PDF error whose message mentions a password is reported as
\* password-protected
C25_InvalidReportedEncrypted ==
    /\ pdfPc = "failed"
    /\ caught.name = InvalidPDFExceptionName
    /\ pdfResult.kind = "encrypted"

-----------------------------------------------------------------------------
(* TOC order *)

\* C26: the TOC lists the heading lines in document order and its page
\* indexes never decrease: for entries a < b, the line of a stands before the
\* line of b and pageIndex of a <= pageIndex of b, also when a was pulled
\* forward to the next page
C26_TocInDocumentOrder ==
    /\ rpc \in {"loop", "done"} =>
          /\ Len(tocSrc) = Len(tempToc)
          /\ \A k \in 1..Len(tempToc) :
                /\ tocSrc[k].line \in 1..Len(lines)
                /\ HeaderTest(Trim(lines[tocSrc[k].line]))
                /\ tempToc[k].title = TocTitle(lines[tocSrc[k].line])
          /\ \A a, b \in 1..Len(tempToc) :
                a < b => /\ tocSrc[a].line < tocSrc[b].line
                         /\ tempToc[a].pageIndex <= tempToc[b].pageIndex
    /\ rpc = "done" =>
          /\ toc = tempToc
          /\ {tocSrc[k].line : k \in 1..Len(tocSrc)}
                 = {j \in 1..Len(lines) : HeaderTest(Trim(lines[j]))}

\* a heading pulled forward to page 1, the page closed after it, and a second
\* heading met on page 1
C26_Witness ==
    /\ rpc = "done"
    /\ content = <<"X961", NL, "#", " ", "x", NL, "X240", NL, "#", " ", "x">>
    /\ Len(toc) = 2
    /\ tocSrc[1].pulled
    /\ ~tocSrc[2].pulled
    /\ toc[1].pageIndex = 1
    /\ toc[2].pageIndex = 1
    /\ Len(pages) = 2

-----------------------------------------------------------------------------
(* Reader: the progress, closed and opened again *)

\* x <= k, for a number x and an integer k
AtMost(x, k) == Ceil(x) <= k

\* C28: the progress round-trips through close and reopen: a Reader closed
\* on page k of n (handleBack stores k / n * 100) and opened again on the
\* same book starts on page k; a book never closed, its progress 0, starts on
\* page 1; the progress stored by handleBack lies in (0, 100]
C28_ProgressRoundTrip ==
    /\ (Reading /\ asked = NotAsked) =>
          IF closedOn = NeverClosed
          THEN bookProgress = Zero /\ currentPage = 1
          ELSE /\ Len(pages) = closedOn.count
               /\ bookProgress = FinalProgress(closedOn.page, closedOn.count)
               /\ currentPage = closedOn.page
    /\ closedOn # NeverClosed =>
          \A k \in 1..Len(books) :
              books[k].progress # Zero /\ AtMost(books[k].progress, 100)

\* C28: a book of six pages, closed on page 5 and opened again, starts on
\* page 6
C28_ReopenedOnePageOn ==
    /\ Reading
    /\ asked = NotAsked
    /\ closedOn = [page |-> 5, count |-> 6]
    /\ Len(pages) = 6
    /\ currentPage = 6

-----------------------------------------------------------------------------
(* App: the handlers called in any order *)

\* the progress of a book closed on page 1 of 2 and on page 1 of 1
Progresses == {FinalProgress(1, 2), FinalProgress(1, 1)}

\* the ids no book in sight carries
FreshIds == (BookIds \ {books[k].id : k \in 1..Len(books)}) \ {activeBook.id}

AddBook ==
    /\ Len(books) < MaxBooks
    /\ \E id \in FreshIds :
        handleAddBook([id |-> id, content |-> <<"x">>, format |-> "txt",
                       progress |-> Zero])
    /\ UNCHANGED <<closedOn, uploads, readerVars, libRest, pdfVars, epubVars>>

DeleteBook ==
    /\ \E id \in BookIds : handleDeleteBook(id)
    /\ UNCHANGED <<closedOn, uploads, readerVars, libRest, pdfVars, epubVars>>

OpenAnyBook ==
    /\ \E k \in 1..Len(books) : handleOpenBook(books[k])
    /\ UNCHANGED <<closedOn, uploads, readerVars, libRest, pdfVars, epubVars>>

GoToConverter ==
    /\ \E k \in 1..Len(books) : handleGoToConverter(books[k])
    /\ UNCHANGED <<closedOn, uploads, readerVars, libRest, pdfVars, epubVars>>

UpdateProgress ==
    /\ \E id \in BookIds, p \in Progresses : handleUpdateProgress(id, p)
    /\ UNCHANGED <<closedOn, uploads, readerVars, libRest, pdfVars, epubVars>>

CloseView ==
    /\ handleCloseView
    /\ UNCHANGED <<closedOn, uploads, readerVars, libRest, pdfVars, epubVars>>

InitApp ==
    /\ ReaderInitAt(<<>>, Zero, "off")
    /\ AppInit
    /\ PdfInitAt("idle")
    /\ EpubInitAt("idle")
    /\ LibInitWith(NoFile, "off")

NextApp ==
    \/ AddBook
    \/ DeleteBook
    \/ OpenAnyBook
    \/ GoToConverter
    \/ UpdateProgress
    \/ CloseView

SpecApp == InitApp /\ [][NextApp]_vars

\* C30: after any sequence of add, delete, open, go-to-converter,
\* update-progress and close, an active book is set whenever the view is the
\* reader or the converter; deleting the active book clears it and brings
\* the Library back; updating the progress changes the progress of the
\* books of the given id and nothing else: the other books, the length and
\* the order of the list stay
C30_AppKeepsActiveBook ==
    /\ view \in {"reader", "converter"} => activeBook # NoBook
    /\ (op.name = "delete" /\ op.active # NoBook /\ op.active.id = op.id) =>
          activeBook = NoBook /\ view = "library"
    /\ op.name = "update" =>
          /\ Len(books) = Len(op.before)
          /\ \A k \in 1..Len(books) :
                IF op.before[k].id = op.id
                THEN books[k] = [op.before[k] EXCEPT !.progress = op.progress]
                ELSE books[k] = op.before[k]

\* the active book is deleted while the Reader shows it; the other book was
\* left alone by the update before
C30_Witness ==
    /\ op.name = "delete"
    /\ op.active # NoBook
    /\ op.active.id = op.id
    /\ Len(op.before) = 2
    /\ op.before[1].id = op.id
    /\ op.before[1].progress # Zero
    /\ Len(books) = 1
    /\ books[1].progress = Zero
    /\ view = "library"
    /\ activeBook = NoBook

====
